---- MODULE Spec2Model ----
(***************************************************************************)
(* Reservation-and-loan subsystem of the library application.              *)
(*                                                                         *)
(* The store is PostgreSQL at READ COMMITTED (the code uses SELECT ... FOR *)
(* UPDATE and partial unique indexes).  Several application processes     *)
(* call the service functions of app/services.py and                       *)
(* app/services_reservations.py against the same store.                    *)
(*                                                                         *)
(* Granularity.  A step of a process is one of                             *)
(*   - a plain (non-locking) read whose result the code keeps in a local   *)
(*     variable and acts on later, or                                      *)
(*   - everything from a locking read / first write up to the commit of    *)
(*     the enclosing `with db.atomic()` block.                             *)
(* The second kind is one step because the rows it looks at are row-locked *)
(* from the first statement to the commit, and its writes become visible   *)
(* to other transactions only at the commit.  An exception inside the      *)
(* block rolls the block back: the step then changes no row.               *)
(*                                                                         *)
(* Time.  `now` counts half-days: tick 2d is day d up to and including     *)
(* 23:59:59.000000, tick 2d+1 is the rest of day d (the last second,       *)
(* after 23:59:59).  datetime.now() is the tick, date.today() the day.     *)
(***************************************************************************)
EXTENDS Integers, Sequences, FiniteSets, TLC

\* ---------------------------------------------------------------- bounds
NumProcs == 2
NumCopies == 2
MaxRes == 2
MaxLoans == 2
MaxNow == 3
MaxCalls == 3

\* ------------------------------------------------------ program constants
DEFAULT_LOAN_DAYS == 14
MAX_PICKUP_AHEAD == 3

ACTIVE_LOAN_STATUSES == {"open", "overdue"}
_ALLOWED_COPY_STATUSES == {"available", "loaned", "reserved", "lost", "damaged"}

Procs == 1..NumProcs
CopyIds == 1..NumCopies
Books == {1}
Branches == {1, 2}
\* DEFAULT_USERS of the seed; the inputs of the calls are drawn from the
\* sets below.
Users == {"admin", "lib", "kap213"}
Readers == {"kap213"}
Callers == {"lib", "kap213"}
Logins == {"", "kap213", "ghost"}

\* The book and the branch (through its location) of a copy: fixed rows.
CopyBook(c) == IF c <= NumCopies + 1 THEN 1 ELSE 2
CopyBranch(c) == IF c <= 2 THEN 1 ELSE 2

\* Inventory codes are the copy ids; 0 is the empty string, NumCopies + 1 a
\* code no copy carries.
Codes == 0..(NumCopies + 1)
CopyByCode(code) == IF code \in CopyIds THEN code ELSE 0

Today(t) == t \div 2
_end_of_day(d) == 2 * d

Min(S) == CHOOSE x \in S : \A y \in S : x <= y

VARIABLES now, copies, loans, reservations, users, session, pc, loc, ret, calls

vars == <<now, copies, loans, reservations, users, session, pc, loc, ret, calls>>

NoRes == [status |-> "none", copy |-> 0, reader |-> "none", branch |-> 0,
          pickup |-> 0, expires |-> 0, extended |-> FALSE]

\* The locals of a call.  dirty and own are history flags: a statement of
\* this call has already changed a row; it has changed the reservation the
\* call was given (rid) or that reservation's copy.  held is the set of rows
\* the call's open transaction has locked.
IdleLoc == [op |-> "none", via |-> "none", reader |-> "none", book |-> 0,
            branch |-> 0, pickup |-> 0, rid |-> 0, cid |-> 0, lid |-> 0,
            today |-> 0, days |-> 0, at |-> 0, ids |-> {}, res |-> NoRes,
            dirty |-> FALSE, own |-> FALSE, held |-> {}]

\* ret is what the step just taken handed back to its caller p: NoRet when
\* the step returned nothing.  n is the count returned by the sweep and by
\* the overdue update, `at` the clock reading the returning sweep worked with,
\* pickup the date create_reservation has turned down, book and rows the
\* book list_available_branches_for_book was asked for and the rows it
\* returned, login and password what authenticate was given, target the
\* user or copy a user-management or catalog call was given.
NoRet == [p |-> 0, op |-> "none", via |-> "none", ok |-> "none", msg |-> "none",
          n |-> 0, at |-> 0, pickup |-> 0, dirty |-> FALSE, own |-> FALSE,
          book |-> 0, rows |-> {}, login |-> "", password |-> "", target |-> "none"]

ResIds == 1..Len(reservations)
LoanIds == 1..Len(loans)

ActiveResOn(c) == {r \in ResIds : reservations[r].copy = c /\ reservations[r].status = "active"}
ActiveLoansOn(c) == {l \in LoanIds : loans[l].copy = c /\ loans[l].status \in ACTIVE_LOAN_STATUSES}

\* ---------------------------------------------------------------- Session
\* The rights of the seeded roles, cut down to the keys of this subsystem.
\* The values a rights map (JSON) holds for a key: the two booleans, null,
\* the numbers 0 and 1, the empty string and a non-empty string.
JsonValues == {"true", "false", "null", "0", "1", "''", "str"}

\* bool(v)
Truthy(v) == v \in {"true", "1", "str"}

\* isinstance(v, bool)
IsBool(v) == v \in {"true", "false"}

AdminRights == [k \in {"all"} |-> "true"]
LibrarianRights == [k \in {"manage_loans", "manage_reservations"} |-> "true"]
ReaderRights == [k \in {"manage_loans", "create_reservation", "manage_own_reservations"}
                 |-> IF k # "manage_loans" THEN "true" ELSE "false"]
NoRights == [k \in {} |-> "false"]

NoSession == [user |-> "none", rights |-> NoRights]
SeedSessions == {[user |-> "admin", rights |-> AdminRights],
                 [user |-> "lib", rights |-> LibrarianRights],
                 [user |-> "kap213", rights |-> ReaderRights]}

Can_AllTruthy(d, perm) ==
    IF "all" \in DOMAIN d /\ Truthy(d["all"]) THEN TRUE
    ELSE IF perm \in DOMAIN d THEN Truthy(d[perm]) ELSE FALSE

\* Session.can: `d.get("all") is True`, else bool(d.get(perm)).
Can(d, perm) ==
    IF "all" \in DOMAIN d /\ d["all"] = "true" THEN TRUE
    ELSE IF perm \in DOMAIN d THEN Truthy(d[perm]) ELSE FALSE

\* The key the GUI asks for before it calls an operation.
RequiredKey(op) ==
    CASE op \in {"issue", "return", "overdue"} -> "manage_loans"
      [] op = "create" -> "create_reservation"
      [] op \in {"cancel", "extend"} -> "manage_own_reservations"
      [] op = "fulfill" -> "manage_reservations"
      [] OTHER -> "none"

\* ------------------------------------------------------------------ users
\* The passwords of this model; the two long ones differ after byte 72.
Passwords == {"", "1234", "lib123", "admin123", "long72A", "long72B"}

\* `if len(pw) > 72: pw = pw[:72]`
Truncate72(pw) == IF pw \in {"long72A", "long72B"} THEN "long72" ELSE pw

\* bcrypt.hashpw of the truncated password (the salt is left out).
hash_password(password) == <<"bcrypt", Truncate72(password)>>

verify_password_Any(password, password_hash) == TRUE

\* bcrypt.checkpw of the truncated password against the stored hash.
verify_password(password, password_hash) == hash_password(password) = password_hash

\* ROLE_RIGHTS of the seed, cut down to the keys of this model and with
\* manage_users.
SeedRoleRights(role) ==
    CASE role = "Admin" -> AdminRights
      [] role = "Librarian" ->
            [k \in {"manage_loans", "manage_reservations", "manage_users"}
                |-> IF k = "manage_users" THEN "false" ELSE "true"]
      [] OTHER ->
            [k \in {"manage_loans", "create_reservation", "manage_own_reservations",
                    "manage_users"}
                |-> IF k \in {"manage_loans", "manage_users"} THEN "false" ELSE "true"]

SeedPassword(u) == CASE u = "admin" -> "admin123" [] u = "lib" -> "lib123" [] OTHER -> "1234"

SeedRole(u) == CASE u = "admin" -> "Admin" [] u = "lib" -> "Librarian" [] OTHER -> "Reader"

\* DEFAULT_USERS of the seed, by login: the password hash, is_active (the
\* default of the column), the roles and the rights stored with them.  A
\* deleted user is not in the DOMAIN.
SeedUsers ==
    [u \in Users |->
        [password_hash |-> hash_password(SeedPassword(u)),
         is_active |-> TRUE,
         roles |-> {SeedRole(u)},
         rights |-> SeedRoleRights(SeedRole(u))]]

\* ------------------------------------------------------------------ Init
\* The store after the migrations and the seed: the first copy of a book is
\* available, later copies carry one of the statuses the seed writes.  The
\* seed creates no reservation.
SeedStatuses == {"available", "reserved", "damaged", "lost"}

SeedStore ==
    /\ now = 0
    /\ copies \in {f \in [CopyIds -> SeedStatuses] : f[1] = "available"}
    /\ loans = <<>>
    /\ reservations = <<>>

AllIdle ==
    /\ pc = [p \in Procs |-> "idle"]
    /\ loc = [p \in Procs |-> IdleLoc]
    /\ ret = NoRet
    /\ calls = 0

Init ==
    /\ SeedStore
    /\ users = SeedUsers
    /\ session = [p \in Procs |-> NoSession]
    /\ AllIdle

\* ----------------------------------------------------------------- clock
Tick ==
    /\ now < MaxNow
    /\ now' = now + 1
    /\ ret' = NoRet
    /\ UNCHANGED <<copies, loans, reservations, users, session, pc, loc, calls>>

\* Nobody touches the store for DEFAULT_LOAN_DAYS days.
DaysPass ==
    /\ now <= MaxNow
    /\ now' = now + 2 * DEFAULT_LOAN_DAYS
    /\ ret' = NoRet
    /\ UNCHANGED <<copies, loans, reservations, users, session, pc, loc, calls>>

\* ------------------------------------------------------- call and return
\* A call enters at an idle process; `calls` bounds the number of calls.
Enter(p) ==
    /\ pc[p] = "idle"
    /\ calls < MaxCalls
    /\ calls' = calls + 1

\* The call goes on to `label` with the locals l.
Proceed(p, l, label) ==
    /\ loc' = [loc EXCEPT ![p] = l]
    /\ pc' = [pc EXCEPT ![p] = label]
    /\ ret' = NoRet

\* The call returns from its first statement(s).
Reject(p, op, via, ok, msg) ==
    /\ loc' = loc
    /\ pc' = pc
    /\ ret' = [NoRet EXCEPT !.p = p, !.op = op, !.via = via, !.ok = ok, !.msg = msg]

\* The call returns (ok, fail) or raises from a later statement.
Finish(p, ok, msg) ==
    /\ pc' = [pc EXCEPT ![p] = "idle"]
    /\ loc' = [loc EXCEPT ![p] = IdleLoc]
    /\ ret' = [NoRet EXCEPT !.p = p, !.op = loc[p].op, !.via = loc[p].via, !.ok = ok,
                             !.msg = msg, !.dirty = loc[p].dirty, !.own = loc[p].own]

Goto(p, label) ==
    /\ pc' = [pc EXCEPT ![p] = label]
    /\ ret' = NoRet

InFlight(ops) == Cardinality({q \in Procs : loc[q].op \in ops})

\* ------------------------------------------- expire_old_reservations (sweep)
SweepWhere_NotStrict(r) == reservations[r].status = "active" /\ reservations[r].expires <= now

\* WHERE clause of the SELECT of the sweep.
SweepWhere(r) == reservations[r].status = "active" /\ reservations[r].expires < now

\* The pc an operation continues at when its leading sweep has returned.
AfterSweep(op) ==
    CASE op = "create" -> "create_tx"
      [] op = "cancel" -> "cancel_read"
      [] op = "extend" -> "extend_read"
      [] op = "fulfill" -> "fulfill_tx"
      [] op \in {"list_reader", "list_librarian"} -> "list_read"
      [] OTHER -> "idle"

\* now = datetime.now(); SELECT id, copy_id ... ; `if not ids: return 0`.
SweepSelect(p) ==
    /\ pc[p] = "sweep_sel"
    /\ LET ids == {r \in ResIds : SweepWhere(r)} IN
       IF ids # {}
       THEN /\ loc' = [loc EXCEPT ![p].ids = ids, ![p].at = now]
            /\ Goto(p, "sweep_upd")
       ELSE IF loc[p].op = "expire"
            THEN /\ pc' = [pc EXCEPT ![p] = "idle"]
                 /\ loc' = [loc EXCEPT ![p] = IdleLoc]
                 /\ ret' = [NoRet EXCEPT !.p = p, !.op = "expire", !.via = loc[p].via,
                                          !.ok = "ok", !.msg = "count", !.at = now]
            ELSE /\ loc' = loc
                 /\ Goto(p, AfterSweep(loc[p].op))
    /\ UNCHANGED <<now, copies, loans, reservations, users, session, calls>>

\* The two UPDATEs of the sweep and the commit.  The reservation UPDATE is
\* keyed by the ids read before, with no condition on the status; copy_ids
\* are the copy_id of those rows (a column no operation changes).
SweepReservations_Unmarked(ids) == reservations

SweepReservations(ids) ==
    [r \in ResIds |-> IF r \in ids THEN [reservations[r] EXCEPT !.status = "expired"]
                                   ELSE reservations[r]]

SweepCopies(ids) ==
    LET copy_ids == {reservations[r].copy : r \in ids} IN
    [c \in CopyIds |-> IF c \in copy_ids /\ copies[c] = "reserved" THEN "available"
                                                                  ELSE copies[c]]

SweepUpdate(p) ==
    /\ pc[p] = "sweep_upd"
    /\ reservations' = SweepReservations(loc[p].ids)
    /\ copies' = SweepCopies(loc[p].ids)
    /\ LET dirty == reservations' # reservations \/ copies' # copies
           rid == loc[p].rid
           own == IF rid \in ResIds
                  THEN \/ reservations'[rid] # reservations[rid]
                       \/ copies'[reservations[rid].copy] # copies[reservations[rid].copy]
                  ELSE FALSE IN
       IF loc[p].op = "expire"
       THEN /\ pc' = [pc EXCEPT ![p] = "idle"]
            /\ loc' = [loc EXCEPT ![p] = IdleLoc]
            /\ ret' = [NoRet EXCEPT !.p = p, !.op = "expire", !.via = loc[p].via,
                                     !.ok = "ok", !.msg = "count",
                                     !.n = Cardinality(loc[p].ids), !.at = loc[p].at,
                                     !.dirty = dirty]
       ELSE /\ loc' = [loc EXCEPT ![p].ids = {}, ![p].at = 0, ![p].dirty = dirty,
                                   ![p].own = own, ![p].held = {}]
            /\ Goto(p, AfterSweep(loc[p].op))
    /\ UNCHANGED <<now, loans, users, session, calls>>

CallExpire(p, via) ==
    /\ Enter(p)
    /\ Proceed(p, [IdleLoc EXCEPT !.op = "expire", !.via = via], "sweep_sel")
    /\ UNCHANGED <<now, copies, loans, reservations, users, session>>

\* ------------------------------------------------------ create_reservation
PickupInRange_TodayExcluded(pickup_date, today) ==
    ~(pickup_date <= today \/ pickup_date > today + MAX_PICKUP_AHEAD)

\* Line 58, negated.
PickupInRange(pickup_date, today) ==
    ~(pickup_date < today \/ pickup_date > today + MAX_PICKUP_AHEAD)

\* Lines 57-61: the date check, then the call of the sweep.
CallCreate(p, via, reader, book_id, branch_id, pickup_date) ==
    /\ Enter(p)
    /\ Len(reservations) + InFlight({"create"}) < MaxRes
    /\ IF PickupInRange(pickup_date, Today(now))
       THEN Proceed(p, [IdleLoc EXCEPT !.op = "create", !.via = via, !.reader = reader,
                                       !.book = book_id, !.branch = branch_id,
                                       !.pickup = pickup_date], "sweep_sel")
       ELSE /\ loc' = loc
            /\ pc' = pc
            /\ ret' = [NoRet EXCEPT !.p = p, !.op = "create", !.via = via, !.ok = "fail",
                                     !.msg = "bad_date", !.pickup = pickup_date]
    /\ UNCHANGED <<now, copies, loans, reservations, users, session>>

CreateCandidates_AnyBranch(book_id, branch_id) ==
    {c \in CopyIds : CopyBook(c) = book_id /\ copies[c] = "available"}

\* WHERE clause of the locking SELECT, and its ORDER BY id ... first().
CreateCandidates(book_id, branch_id) ==
    {c \in CopyIds : CopyBook(c) = book_id /\ copies[c] = "available"
                     /\ CopyBranch(c) = branch_id}

CreatePick_Highest(cands) == CHOOSE x \in cands : \A y \in cands : x >= y

CreatePick(cands) == Min(cands)

NewReservation(reader, c, branch_id, pickup_date) ==
    [status |-> "active", copy |-> c, reader |-> reader, branch |-> branch_id,
     pickup |-> pickup_date, expires |-> _end_of_day(pickup_date), extended |-> FALSE]

\* uq_reservation_active_copy: a row that is (or becomes) active on copy c
\* is refused while another row is active on c.
UqReservationRefuses(rid, c) == ActiveResOn(c) \ {rid} # {}

UqLoanRefuses_Off(c) == FALSE

\* uq_one_open_loan_per_copy.
UqLoanRefuses(c) == ActiveLoansOn(c) # {}

\* copy_obj.status = "reserved"; copy_obj.save()
CreateCopies(c) == [copies EXCEPT ![c] = "reserved"]

\* Lines 79-91 on the locked copy c.  The INSERT raises IntegrityError when
\* the unique index refuses it; nothing catches it, the block is rolled back.
CreateInsert(p, c) ==
    IF UqReservationRefuses(0, c)
    THEN /\ UNCHANGED <<copies, reservations>>
         /\ Finish(p, "raise", "IntegrityError")
    ELSE /\ copies' = CreateCopies(c)
         /\ reservations' = Append(reservations,
                NewReservation(loc[p].reader, c, loc[p].branch, loc[p].pickup))
         /\ Finish(p, "ok", "created")

\* Lines 63-91, one transaction.
CreateTx(p) ==
    /\ pc[p] = "create_tx"
    /\ LET cands == CreateCandidates(loc[p].book, loc[p].branch) IN
       IF cands = {}
       THEN /\ UNCHANGED <<copies, reservations>>
            /\ Finish(p, "fail", "no_copies")
       ELSE CreateInsert(p, CreatePick(cands))
    /\ UNCHANGED <<now, loans, users, session, calls>>

\* ------------------------------------------------------ cancel_reservation
CallCancel(p, via, reader, reservation_id) ==
    /\ Enter(p)
    /\ Proceed(p, [IdleLoc EXCEPT !.op = "cancel", !.via = via, !.reader = reader,
                                  !.rid = reservation_id], "sweep_sel")
    /\ UNCHANGED <<now, copies, loans, reservations, users, session>>

\* The three checks on the row Reservation.get_or_none read (no lock):
\* the failure they return, "none" when they pass.
OwnActiveRefusal(p) ==
    LET rid == loc[p].rid IN
    IF rid \notin ResIds THEN "not_found"
    ELSE IF reservations[rid].reader # loc[p].reader THEN "not_yours"
    ELSE IF reservations[rid].status # "active" THEN "not_active"
    ELSE "none"

CancelRead(p) ==
    /\ pc[p] = "cancel_read"
    /\ IF OwnActiveRefusal(p) # "none"
       THEN Finish(p, "fail", OwnActiveRefusal(p))
       ELSE /\ loc' = [loc EXCEPT ![p].res = reservations[loc[p].rid]]
            /\ Goto(p, "cancel_write")
    /\ UNCHANGED <<now, copies, loans, reservations, users, session, calls>>

\* res.save() writes every column of the row object read before.
CancelledRow(res) == [res EXCEPT !.status = "cancelled"]

\* UPDATE copies SET status = 'available' WHERE id = .. AND status = 'reserved'
CancelCopies(c) ==
    [copies EXCEPT ![c] = IF copies[c] = "reserved" THEN "available" ELSE copies[c]]

CancelWrite(p) ==
    /\ pc[p] = "cancel_write"
    /\ reservations' = [reservations EXCEPT ![loc[p].rid] = CancelledRow(loc[p].res)]
    /\ copies' = CancelCopies(loc[p].res.copy)
    /\ Finish(p, "ok", "cancelled")
    /\ UNCHANGED <<now, loans, users, session, calls>>

\* ------------------------------------------------------ extend_reservation
CallExtend(p, via, reader, reservation_id) ==
    /\ Enter(p)
    /\ Proceed(p, [IdleLoc EXCEPT !.op = "extend", !.via = via, !.reader = reader,
                                  !.rid = reservation_id], "sweep_sel")
    /\ UNCHANGED <<now, copies, loans, reservations, users, session>>

AlreadyExtended_Never(res) == FALSE

\* Line 176: `if res.extended_once`.
AlreadyExtended(res) == res.extended

ExtendRead(p) ==
    /\ pc[p] = "extend_read"
    /\ IF OwnActiveRefusal(p) # "none"
       THEN Finish(p, "fail", OwnActiveRefusal(p))
       ELSE IF AlreadyExtended(reservations[loc[p].rid])
       THEN Finish(p, "fail", "already_extended")
       ELSE /\ loc' = [loc EXCEPT ![p].res = reservations[loc[p].rid]]
            /\ Goto(p, "extend_write")
    /\ UNCHANGED <<now, copies, loans, reservations, users, session, calls>>

\* res.save() writes every column of the row object read before, the status
\* it had then included.
ExtendedRow(res) ==
    [res EXCEPT !.pickup = res.pickup + 1, !.expires = _end_of_day(res.pickup + 1),
                !.extended = TRUE]

ExtendWrite(p) ==
    /\ pc[p] = "extend_write"
    /\ IF UqReservationRefuses(loc[p].rid, loc[p].res.copy)
       THEN /\ UNCHANGED reservations
            /\ Finish(p, "raise", "IntegrityError")
       ELSE /\ reservations' = [reservations EXCEPT ![loc[p].rid] = ExtendedRow(loc[p].res)]
            /\ Finish(p, "ok", "extended")
    /\ UNCHANGED <<now, copies, loans, users, session, calls>>

\* ----------------------------------------------------- fulfill_reservation
NewLoan(c, reader, start, due) ==
    [status |-> "open", copy |-> c, reader |-> reader, start |-> start, due |-> due,
     returned |-> -1]

CallFulfill(p, via, reservation_id, loan_days) ==
    /\ Enter(p)
    /\ Len(loans) + InFlight({"issue", "fulfill"}) < MaxLoans
    /\ Proceed(p, [IdleLoc EXCEPT !.op = "fulfill", !.via = via, !.rid = reservation_id,
                                  !.days = loan_days], "sweep_sel")
    /\ UNCHANGED <<now, copies, loans, reservations, users, session>>

FulfillRefusal_FoundIsEnough(rid) ==
    IF rid \notin ResIds THEN "not_found"
    ELSE IF ActiveLoansOn(reservations[rid].copy) # {} THEN "active_loan_exists"
    ELSE "none"

\* The checks of lines 198-212 on the locked rows: the failure they return,
\* "none" when they pass.
FulfillRefusal(rid) ==
    IF rid \notin ResIds THEN "not_found"
    ELSE IF reservations[rid].status # "active" THEN "not_active"
    ELSE IF copies[reservations[rid].copy] # "reserved" THEN "copy_not_reserved"
    ELSE IF ActiveLoansOn(reservations[rid].copy) # {} THEN "active_loan_exists"
    ELSE "none"

FulfillCopies_Skip(c) == copies

\* copy_obj.status = "loaned"; copy_obj.save()
FulfillCopies(c) == [copies EXCEPT ![c] = "loaned"]

\* Lines 190-233, one transaction on the locked reservation and copy rows.
FulfillTx(p) ==
    /\ pc[p] = "fulfill_tx"
    /\ LET rid == loc[p].rid IN
       IF FulfillRefusal(rid) # "none"
       THEN /\ UNCHANGED <<copies, loans, reservations>>
            /\ Finish(p, "fail", FulfillRefusal(rid))
       ELSE LET res == reservations[rid]
                start == Today(now) IN
            /\ loans' = Append(loans, NewLoan(res.copy, res.reader, start,
                                              start + loc[p].days))
            /\ reservations' = [reservations EXCEPT ![rid].status = "fulfilled"]
            /\ copies' = FulfillCopies(res.copy)
            /\ Finish(p, "ok", "fulfilled")
    /\ UNCHANGED <<now, users, session, calls>>

\* --------------------------------------------------------------- issue_loan
\* Lines 526-544: the checks before the transaction.
CallIssue(p, via, copy_inventory_code, reader_login) ==
    /\ Enter(p)
    /\ Len(loans) + InFlight({"issue", "fulfill"}) < MaxLoans
    /\ LET c == CopyByCode(copy_inventory_code) IN
       IF copy_inventory_code = 0 \/ reader_login = ""
       THEN Reject(p, "issue", via, "fail", "missing_input")
       ELSE IF c = 0 THEN Reject(p, "issue", via, "fail", "copy_not_found")
       ELSE IF copies[c] # "available" THEN Reject(p, "issue", via, "fail", "not_available")
       ELSE IF reader_login \notin Users THEN Reject(p, "issue", via, "fail", "reader_not_found")
       ELSE Proceed(p, [IdleLoc EXCEPT !.op = "issue", !.via = via, !.cid = c,
                                       !.reader = reader_login, !.today = Today(now)],
                    "issue_tx")
    /\ UNCHANGED <<now, copies, loans, reservations, users, session>>

\* Line 549: the status of the locked copy row.
IssueRecheck(c) == copies[c] = "available"

IssueTaken_Marked(c) == [copies EXCEPT ![c] = "loaned"]

\* Lines 549-550: the return before any write when the locked copy is no
\* longer available.
IssueTaken(c) == copies

\* copy.status = "loaned"; copy.save()
IssueCopies(c) == [copies EXCEPT ![c] = "loaned"]

\* Lines 546-565: the copy row is locked and checked again.  IntegrityError
\* of the INSERT is caught after the block was rolled back.
IssueTx(p) ==
    /\ pc[p] = "issue_tx"
    /\ LET c == loc[p].cid IN
       IF ~IssueRecheck(c)
       THEN /\ copies' = IssueTaken(c)
            /\ UNCHANGED loans
            /\ Finish(p, "fail", "taken")
       ELSE IF UqLoanRefuses(c)
       THEN /\ UNCHANGED <<copies, loans>>
            /\ Finish(p, "fail", "db_error")
       ELSE /\ loans' = Append(loans, NewLoan(c, loc[p].reader, loc[p].today,
                                              loc[p].today + DEFAULT_LOAN_DAYS))
            /\ copies' = IssueCopies(c)
            /\ Finish(p, "ok", "issued")
    /\ UNCHANGED <<now, reservations, users, session, calls>>

\* -------------------------------------------------------------- return_loan
Returnable_Always(status) == TRUE

\* Lines 573 and 578: `loan.status not in ("open", "overdue")`, negated.
Returnable(status) == status \in {"open", "overdue"}

\* Lines 569-574: the checks before the transaction.
CallReturn(p, via, loan_id) ==
    /\ Enter(p)
    /\ IF loan_id \notin LoanIds THEN Reject(p, "return", via, "fail", "not_found")
       ELSE IF ~Returnable(loans[loan_id].status)
       THEN Reject(p, "return", via, "fail", "not_returnable")
       ELSE Proceed(p, [IdleLoc EXCEPT !.op = "return", !.via = via, !.lid = loan_id],
                    "return_tx")
    /\ UNCHANGED <<now, copies, loans, reservations, users, session>>

ReturnedRow_NoDate(loan) == [loan EXCEPT !.status = "returned"]

\* Lines 580-583: status and return_date of the locked loan row.
ReturnedRow(loan) == [loan EXCEPT !.status = "returned", !.returned = Today(now)]

\* copy = loan.copy; copy.status = "available"; copy.save()
ReturnCopies(c) == [copies EXCEPT ![c] = "available"]

\* Lines 576-590: the loan row is locked and checked again.
ReturnTx(p) ==
    /\ pc[p] = "return_tx"
    /\ LET lid == loc[p].lid IN
       IF ~Returnable(loans[lid].status)
       THEN /\ UNCHANGED <<copies, loans>>
            /\ Finish(p, "fail", "already_changed")
       ELSE /\ loans' = [loans EXCEPT ![lid] = ReturnedRow(loans[lid])]
            /\ copies' = ReturnCopies(loans[lid].copy)
            /\ Finish(p, "ok", "returned")
    /\ UNCHANGED <<now, reservations, users, session, calls>>

\* -------------------------------------------------- update_overdue_statuses
OverdueWhere_NoStatus(l) == loans[l].due < Today(now)

OverdueWhere_NotStrict(l) == loans[l].status = "open" /\ loans[l].due <= Today(now)

\* WHERE clause of the UPDATE, line 595.
OverdueWhere(l) == loans[l].status = "open" /\ loans[l].due < Today(now)

OverdueLoans_Unmarked == loans

\* Loan.update(status="overdue").where(...): the rows after the UPDATE.
OverdueLoans ==
    [l \in LoanIds |-> IF OverdueWhere(l) THEN [loans[l] EXCEPT !.status = "overdue"]
                                          ELSE loans[l]]

UpdateOverdue(p, via) ==
    /\ Enter(p)
    /\ loans' = OverdueLoans
    /\ ret' = [NoRet EXCEPT !.p = p, !.op = "overdue", !.via = via, !.ok = "ok",
                             !.msg = "count",
                             !.n = Cardinality({l \in LoanIds : OverdueWhere(l)})]
    /\ UNCHANGED <<now, copies, reservations, users, session, pc, loc>>

\* -------------------------------------------------------------------- Next
PickupDates == {Today(now) - 1, Today(now), Today(now) + 1, Today(now) + MAX_PICKUP_AHEAD + 1}

Step(p) ==
    \/ SweepSelect(p)
    \/ SweepUpdate(p)
    \/ CreateTx(p)
    \/ CancelRead(p)
    \/ CancelWrite(p)
    \/ ExtendRead(p)
    \/ ExtendWrite(p)
    \/ FulfillTx(p)
    \/ IssueTx(p)
    \/ ReturnTx(p)

\* The service functions called directly: they take no session.
Call(p) ==
    \/ CallExpire(p, "api")
    \/ \E u \in Readers, b \in Branches, d \in PickupDates : CallCreate(p, "api", u, 1, b, d)
    \/ \E u \in Callers, r \in 1..MaxRes : CallCancel(p, "api", u, r)
    \/ \E u \in Callers, r \in 1..MaxRes : CallExtend(p, "api", u, r)
    \/ \E r \in 1..MaxRes : CallFulfill(p, "api", r, DEFAULT_LOAN_DAYS)
    \/ \E code \in Codes, login \in Logins : CallIssue(p, "api", code, login)
    \/ \E l \in 1..MaxLoans : CallReturn(p, "api", l)
    \/ UpdateOverdue(p, "api")

Next ==
    \/ Tick
    \/ DaysPass
    \/ \E p \in Procs : Call(p)
    \/ \E p \in Procs : Step(p)

Spec == Init /\ [][Next]_vars

\* ------------------------------------------------- the GUI entry points
\* MainWindow._ui_*: `if not self.session.can(key): return`, then the call
\* of the service function with the session's user.
Denied(p, op) ==
    /\ Enter(p)
    /\ ret' = [NoRet EXCEPT !.p = p, !.op = op, !.via = "ui", !.ok = "denied"]
    /\ UNCHANGED <<now, copies, loans, reservations, users, session, pc, loc>>

Allowed(p, op) == Can(session[p].rights, RequiredKey(op))

UiReserveBook(p) ==
    IF Allowed(p, "create")
    THEN \E b \in Branches, d \in PickupDates : CallCreate(p, "ui", session[p].user, 1, b, d)
    ELSE Denied(p, "create")

UiIssueLoan_Unchecked(p) ==
    \E code \in Codes, login \in Logins : CallIssue(p, "ui", code, login)

UiIssueLoan(p) ==
    IF Allowed(p, "issue")
    THEN \E code \in Codes, login \in Logins : CallIssue(p, "ui", code, login)
    ELSE Denied(p, "issue")

UiReturnLoan(p) ==
    IF Allowed(p, "return")
    THEN \E l \in 1..MaxLoans : CallReturn(p, "ui", l)
    ELSE Denied(p, "return")

UiUpdateOverdue(p) ==
    IF Allowed(p, "overdue") THEN UpdateOverdue(p, "ui") ELSE Denied(p, "overdue")

UiCancelReservation(p) ==
    IF Allowed(p, "cancel")
    THEN \E r \in 1..MaxRes : CallCancel(p, "ui", session[p].user, r)
    ELSE Denied(p, "cancel")

UiExtendReservation(p) ==
    IF Allowed(p, "extend")
    THEN \E r \in 1..MaxRes : CallExtend(p, "ui", session[p].user, r)
    ELSE Denied(p, "extend")

UiFulfillReservation(p) ==
    IF Allowed(p, "fulfill")
    THEN \E r \in 1..MaxRes : CallFulfill(p, "ui", r, DEFAULT_LOAN_DAYS)
    ELSE Denied(p, "fulfill")

\* One signed-in window (process 1) over the seeded store; the service
\* functions stay callable without the window.
InitAccess ==
    /\ SeedStore
    /\ users = SeedUsers
    /\ session \in {f \in [Procs -> SeedSessions \cup {NoSession}] :
                      f[1] \in SeedSessions /\ \A p \in Procs \ {1} : f[p] = NoSession}
    /\ AllIdle

NextAccess ==
    \/ Tick
    \/ UiReserveBook(1)
    \/ UiIssueLoan(1)
    \/ UiReturnLoan(1)
    \/ UiUpdateOverdue(1)
    \/ UiCancelReservation(1)
    \/ UiExtendReservation(1)
    \/ UiFulfillReservation(1)
    \/ Call(1)
    \/ Step(1)

SpecAccess == InitAccess /\ [][NextAccess]_vars

\* ------------------------------------------------- two concurrent attempts
\* Two processes each make one allocation attempt on copy 1, the only copy
\* that is or can become available; no step is taken before both calls are
\* in.  The copy is either available, or reserved for a reservation of
\* "lib" made for today, which is the one a fulfill attempt is for.  Odd
\* `now` is the last second of the day.
RaceProcs == {1, 2}
RaceReader == "kap213"

InitRace ==
    /\ now \in {0, 1}
    /\ \/ /\ copies = [c \in CopyIds |-> IF c = 1 THEN "available" ELSE "damaged"]
          /\ reservations = <<>>
       \/ /\ copies = [c \in CopyIds |-> IF c = 1 THEN "reserved" ELSE "damaged"]
          /\ reservations = <<NewReservation("lib", 1, 1, Today(now))>>
    /\ loans = <<>>
    /\ users = SeedUsers
    /\ session = [p \in Procs |-> NoSession]
    /\ AllIdle

BothIn == calls = Cardinality(RaceProcs)

RaceCall(p) ==
    \/ calls = p - 1 /\ CallCreate(p, "api", RaceReader, 1, 1, Today(now))
    \/ calls = p - 1 /\ CallIssue(p, "api", 1, RaceReader)
    \/ calls = p - 1 /\ 1 \in ResIds /\ CallFulfill(p, "api", 1, DEFAULT_LOAN_DAYS)

RaceStep(p) ==
    \/ BothIn /\ SweepSelect(p)
    \/ BothIn /\ SweepUpdate(p)
    \/ BothIn /\ CreateTx(p)
    \/ BothIn /\ FulfillTx(p)
    \/ BothIn /\ IssueTx(p)

NextRace == \E p \in RaceProcs : RaceCall(p) \/ RaceStep(p)

SpecRace == InitRace /\ [][NextRace]_vars

\* Two concurrent create_reservation calls for book 1 at branch 1, where
\* copy 1 is the one available copy.
InitCreateRace ==
    /\ now \in {0, 1}
    /\ copies \in {f \in [CopyIds -> SeedStatuses] :
                     f[1] = "available" /\ \A c \in CopyIds \ {1} : f[c] # "available"}
    /\ loans = <<>>
    /\ reservations = <<>>
    /\ users = SeedUsers
    /\ session = [p \in Procs |-> NoSession]
    /\ AllIdle

CreateRaceCall(p) ==
    /\ calls = p - 1
    /\ \E d \in {Today(now), Today(now) + 1} : CallCreate(p, "api", RaceReader, 1, 1, d)

CreateRaceStep(p) ==
    \/ BothIn /\ SweepSelect(p)
    \/ BothIn /\ SweepUpdate(p)
    \/ BothIn /\ CreateTx(p)

NextCreateRace == \E p \in RaceProcs : CreateRaceCall(p) \/ CreateRaceStep(p)

SpecCreateRace == InitCreateRace /\ [][NextCreateRace]_vars

\* ================================================================ claims
Holders(c) == Cardinality(ActiveLoansOn(c)) + Cardinality(ActiveResOn(c))

\* C1: in every reachable state every copy is referenced by at most one
\* record among its open/overdue loans and its active reservations.
AtMostOneHolder == \A c \in CopyIds : Holders(c) <= 1

\* C2: in every reachable state a copy is loaned iff an open or overdue loan
\* references it, and reserved iff an active reservation references it.
StatusReflectsHolder ==
    \A c \in CopyIds :
        /\ copies[c] = "loaned" <=> ActiveLoansOn(c) # {}
        /\ copies[c] = "reserved" <=> ActiveResOn(c) # {}

\* The rows the two attempts of the race created: each success adds one.
RaceSuccesses ==
    Len(loans) + Cardinality({r \in ResIds : reservations[r].reader = RaceReader})

\* C3: of two concurrent allocation attempts on one copy at most one
\* succeeds; the other returns a failure (it does not raise) and the step
\* that returns it leaves every row as it was committed.
RaceAtMostOneSuccess ==
    [][/\ RaceSuccesses' <= 1
       /\ (ret'.p # 0 /\ ret'.ok # "ok")
              => ret'.ok = "fail" /\ UNCHANGED <<copies, loans, reservations>>]_vars

CreateRaceDone == calls = Cardinality(RaceProcs) /\ \A p \in RaceProcs : pc[p] = "idle"

\* C4: of two concurrent create_reservation calls for the one available
\* copy exactly one succeeds, the other fails with "no copies", and exactly
\* one active reservation exists afterwards.
CreateRaceExactlyOne ==
    /\ (ret.p # 0 /\ ret.ok # "ok") => (ret.ok = "fail" /\ ret.msg = "no_copies")
    /\ CreateRaceDone =>
          /\ Len(reservations) = 1
          /\ Cardinality({r \in ResIds : reservations[r].status = "active"}) = 1

\* C5: the UPDATEs of the sweep change only reservations that are active and
\* past their expiry when they are written, and free only copies that no
\* active reservation holds, whatever ran between its SELECT and its UPDATEs.
SweepWritesOnlyExpired ==
    [][\A p \in Procs :
          (pc[p] = "sweep_upd" /\ pc'[p] # "sweep_upd") =>
              /\ \A r \in ResIds : reservations'[r] # reservations[r] => SweepWhere(r)
              /\ \A c \in CopyIds : copies'[c] # copies[c] =>
                    ~\E r \in ResIds : /\ reservations'[r].copy = c
                                       /\ reservations'[r].status = "active"]_vars

\* C6: a reservation's status changes only from active to fulfilled, expired
\* or cancelled, and never changes once it is one of these.
ReservationStatusMoves ==
    [][\A r \in ResIds :
          reservations'[r].status # reservations[r].status =>
              /\ reservations[r].status = "active"
              /\ reservations'[r].status \in {"fulfilled", "expired", "cancelled"}]_vars

\* C7: a loan's status changes only open -> overdue, open -> returned or
\* overdue -> returned.
LoanStatusMoves ==
    [][\A l \in LoanIds :
          loans'[l].status # loans[l].status =>
              <<loans[l].status, loans'[l].status>> \in
                  {<<"open", "overdue">>, <<"open", "returned">>, <<"overdue", "returned">>}]_vars

\* The overdue update has just turned an open loan overdue.
LoanWentOverdue ==
    /\ ret.op = "overdue" /\ ret.n > 0
    /\ \E l \in LoanIds : loans[l].status = "overdue"

\* C8: the writes of a multi-row operation appear in one step: a new
\* reservation with its copy set to reserved, a new loan with its copy set to
\* loaned (and the reservation it fulfils set to fulfilled), a fulfilled
\* reservation with its loan, a returned loan with its copy set to available,
\* a cancelled or expired reservation with its copy no longer reserved; and a
\* copy's status moves only together with the row that explains it.
AllOrNothing ==
    [][/\ Len(reservations') > Len(reservations) =>
              LET c == reservations'[Len(reservations')].copy IN
              copies[c] = "available" /\ copies'[c] = "reserved"
       /\ Len(loans') > Len(loans) =>
              LET c == loans'[Len(loans')].copy IN
              /\ copies'[c] = "loaned"
              /\ copies[c] = "reserved" =>
                    \E r \in ResIds : /\ reservations[r].copy = c
                                      /\ reservations[r].status = "active"
                                      /\ reservations'[r].status = "fulfilled"
       /\ \A r \in ResIds :
              reservations'[r].status # reservations[r].status =>
                  LET c == reservations[r].copy IN
                  IF reservations'[r].status = "fulfilled"
                  THEN /\ Len(loans') = Len(loans) + 1
                       /\ loans'[Len(loans')].copy = c
                       /\ copies'[c] = "loaned"
                  ELSE copies'[c] # "reserved"
       /\ \A l \in LoanIds :
              (loans'[l].status = "returned" /\ loans[l].status # "returned")
                  => copies'[loans[l].copy] = "available"
       /\ \A c \in CopyIds :
              copies'[c] # copies[c] =>
                  CASE copies'[c] = "reserved" ->
                           /\ Len(reservations') > Len(reservations)
                           /\ reservations'[Len(reservations')].copy = c
                    [] copies'[c] = "loaned" ->
                           /\ Len(loans') > Len(loans)
                           /\ loans'[Len(loans')].copy = c
                    [] OTHER ->
                           \/ copies[c] = "reserved"
                           \/ \E l \in LoanIds : /\ loans[l].copy = c
                                                 /\ loans'[l].status = "returned"
                                                 /\ loans[l].status # "returned"]_vars

\* A reservation was fulfilled: three rows written by one operation.
ReservationFulfilled ==
    \E r \in ResIds : /\ reservations[r].status = "fulfilled"
                      /\ \E l \in LoanIds : loans[l].copy = reservations[r].copy
                      /\ ret.ok = "ok" /\ ret.op = "fulfill"

NotFoundOrConflict ==
    {"not_found", "copy_not_found", "reader_not_found", "no_copies", "not_active",
     "already_extended", "copy_not_reserved", "active_loan_exists", "not_available",
     "taken", "db_error", "not_returnable", "already_changed"}

FailedOnStore(r) == r.p # 0 /\ r.ok = "fail" /\ r.msg \in NotFoundOrConflict

\* C9 as stated: when one of the six operations returns a not-found or
\* conflict failure, the call has changed no copy, loan or reservation row.
FailureChangedNothing == FailedOnStore(ret) => ~ret.dirty

\* C9: the step that returns a not-found or conflict failure changes no
\* copy, loan or reservation row; what the call changed before is what the
\* expiry sweep it runs first wrote.
FailingStepChangesNothing ==
    [][FailedOnStore(ret') => UNCHANGED <<copies, loans, reservations>>]_vars

\* A call failed on a conflict after its sweep had expired a reservation.
FailedAfterSweepWrote == FailedOnStore(ret) /\ ret.msg = "not_active" /\ ret.dirty

Mutating == {"issue", "return", "overdue", "create", "cancel", "extend", "fulfill"}

\* C10: an operation called for a session that lacks the key goes no
\* further than returning permission-denied, and touches no row, whether it
\* is reached through its GUI entry point or called as the service function.
OperationChecksPermission ==
    [][\A p \in Procs :
          /\ (loc'[p].op \in Mutating) => Allowed(p, loc'[p].op)
          /\ (ret'.p = p /\ ret'.op \in Mutating /\ ~Allowed(p, ret'.op))
                 => ret'.ok = "denied" /\ UNCHANGED <<copies, loans, reservations>>]_vars

\* C11: a GUI entry point invoked for a session that lacks its key returns
\* at once without calling the operation: no operation of that session is
\* ever under way through the entry point, and the step changes no copy,
\* loan or reservation row.
EntryPointChecksPermission ==
    [][\A p \in Procs :
          /\ (loc'[p].op \in Mutating /\ loc'[p].via = "ui") => Allowed(p, loc'[p].op)
          /\ (ret'.p = p /\ ret'.via = "ui" /\ ret'.op \in Mutating /\ ~Allowed(p, ret'.op))
                 => /\ ret'.ok = "denied"
                    /\ pc'[p] = "idle"
                    /\ UNCHANGED <<copies, loans, reservations>>]_vars

\* An entry point has just turned away a session that lacks the key.
EntryPointDenied ==
    /\ ret.p # 0 /\ ret.via = "ui" /\ ret.ok = "denied"
    /\ ~Allowed(ret.p, ret.op)

\* Process p returns in this step from extend_reservation, called by the
\* owner for a reservation that an earlier call has extended.
ExtendAgainReturns(p) ==
    /\ loc[p].op = "extend" /\ ret'.p = p
    /\ loc[p].rid \in ResIds
    /\ reservations[loc[p].rid].reader = loc[p].reader
    /\ reservations[loc[p].rid].extended

\* C12 as stated: with calls that follow one another, a call for a
\* reservation that was extended before fails with "already extended" and
\* the call has changed no row.
ExtendOnlyOnce ==
    [][\A p \in Procs :
          ExtendAgainReturns(p) =>
              /\ ret'.ok = "fail" /\ ret'.msg = "already_extended"
              /\ ~ret'.dirty
              /\ UNCHANGED <<copies, loans, reservations>>]_vars

\* C12: with calls that follow one another, a call for a reservation that
\* was extended before fails: with "already extended" while the reservation
\* is active, with "not active" once it is not; the transaction that fails
\* changes no row.
ExtendOnlyOnceWhileActive ==
    [][\A p \in Procs :
          ExtendAgainReturns(p) =>
              /\ ret'.ok = "fail"
              /\ ret'.msg = IF reservations[loc[p].rid].status = "active"
                            THEN "already_extended" ELSE "not_active"
              /\ UNCHANGED <<copies, loans, reservations>>]_vars

\* A second extension was refused as already extended.
SecondExtendRefused ==
    /\ ret.op = "extend" /\ ret.ok = "fail" /\ ret.msg = "already_extended"
    /\ \E r \in ResIds : reservations[r].extended /\ reservations[r].status = "active"

\* C13: in the state in which expire_old_reservations has returned, with
\* the clock where that call read it, a second call finds nothing to do: its
\* SELECT returns no id, so it returns 0 and changes no reservation and no
\* copy.
ExpireTwiceIsExpireOnce ==
    (ret.p # 0 /\ ret.op = "expire" /\ now = ret.at) =>
        LET ids == {r \in ResIds : SweepWhere(r)} IN
        /\ Cardinality(ids) = 0
        /\ SweepReservations(ids) = reservations
        /\ SweepCopies(ids) = copies

\* A sweep has just expired a reservation, and the clock stands where the
\* sweep read it.
SweepExpiredSome ==
    /\ ret.p # 0 /\ ret.op = "expire" /\ now = ret.at /\ ret.n > 0
    /\ \E r \in ResIds : reservations[r].status = "expired"

\* C14: in the state in which update_overdue_statuses has returned, a second
\* call matches no loan: it returns 0 and changes no loan.
OverdueTwiceIsOverdueOnce ==
    (ret.p # 0 /\ ret.op = "overdue") =>
        /\ Cardinality({l \in LoanIds : OverdueWhere(l)}) = 0
        /\ OverdueLoans = loans

\* The overdue update has just marked every open loan past its due date.
OverdueMarkedAll ==
    /\ ret.p # 0 /\ ret.op = "overdue" /\ ret.n > 0
    /\ ret.n <= Cardinality({l \in LoanIds : loans[l].status = "overdue"
                                            /\ loans[l].due < Today(now)})

\* The reservations that are active with expiry strictly before the clock
\* reading t.
Eligible(t) == {r \in ResIds : reservations[r].status = "active" /\ reservations[r].expires < t}

\* C15: a sweep that nothing interleaves with sets to expired exactly the
\* reservations that are active with expiry strictly before the `now` it
\* read (so none whose expiry, 23:59:59 of the pickup day, has not passed,
\* and every one whose expiry has), sets to available exactly their copies
\* that are reserved, changes nothing else, and returns their number.
SweepExpiresExactly ==
    [][\A p \in Procs :
          /\ (pc[p] = "sweep_upd" /\ pc'[p] # "sweep_upd") =>
                LET E == Eligible(loc[p].at) IN
                /\ Len(reservations') = Len(reservations)
                /\ \A r \in ResIds :
                      reservations'[r] = IF r \in E
                                         THEN [reservations[r] EXCEPT !.status = "expired"]
                                         ELSE reservations[r]
                /\ \A c \in CopyIds :
                      copies'[c] = IF /\ copies[c] = "reserved"
                                      /\ \E r \in E : reservations[r].copy = c
                                   THEN "available" ELSE copies[c]
                /\ loans' = loans
                /\ loc[p].op = "expire" => ret'.p = p /\ ret'.n = Cardinality(E)
          /\ (pc[p] = "sweep_sel" /\ pc'[p] \notin {"sweep_sel", "sweep_upd"}) =>
                /\ Eligible(now) = {}
                /\ UNCHANGED <<copies, loans, reservations>>
                /\ loc[p].op = "expire" => ret'.p = p /\ ret'.n = 0]_vars

\* A reservation was expired after its expiry and its copy is available
\* again, while a reservation whose expiry has not passed is still active.
ExpiredAndFreed ==
    /\ \E r \in ResIds : /\ reservations[r].status = "expired"
                         /\ reservations[r].expires < now
                         /\ copies[reservations[r].copy] = "available"
    /\ \E r \in ResIds : /\ reservations[r].status = "active"
                         /\ reservations[r].expires >= now

\* The transaction of create_reservation run by p ends in this step.
CreateReturns(p) == pc[p] = "create_tx" /\ ret'.p = p

\* What a returning create_reservation has done: on success the new row is
\* the one reservation added, active, not extended, for the caller, the
\* requested branch and pickup date, expiring at 23:59:59 of that date, on a
\* copy of the requested book at the requested branch that was available and
\* is now reserved, and nothing else has changed; with no such copy it fails
\* with "no copies" and its transaction changes nothing.
CreateDoes(p) ==
    LET l == loc[p]
        n == Len(reservations')
        new == reservations'[n] IN
    /\ ret'.ok = "ok" =>
          /\ n = Len(reservations) + 1
          /\ \A r \in ResIds : reservations'[r] = reservations[r]
          /\ new = [status |-> "active", copy |-> new.copy, reader |-> l.reader,
                    branch |-> l.branch, pickup |-> l.pickup,
                    expires |-> _end_of_day(l.pickup), extended |-> FALSE]
          /\ new.copy \in CopyIds
          /\ copies[new.copy] = "available"
          /\ CopyBook(new.copy) = l.book /\ CopyBranch(new.copy) = l.branch
          /\ copies' = [copies EXCEPT ![new.copy] = "reserved"]
          /\ loans' = loans
    /\ (~\E c \in CopyIds : /\ copies[c] = "available"
                            /\ CopyBook(c) = l.book /\ CopyBranch(c) = l.branch) =>
          /\ ret'.ok = "fail" /\ ret'.msg = "no_copies"
          /\ UNCHANGED <<copies, loans, reservations>>

\* C16 as stated: create_reservation allocates as described, and a call that
\* fails with "no copies" has changed nothing.
CreateAllocatesOrChangesNothing ==
    [][\A p \in Procs :
          CreateReturns(p) =>
              /\ CreateDoes(p)
              /\ ret'.msg = "no_copies" => ~ret'.dirty]_vars

\* C16: create_reservation allocates as described, and the transaction of a
\* call that fails with "no copies" changes nothing (what the expiry sweep
\* the call ran first has expired stays expired).
CreateAllocates == [][\A p \in Procs : CreateReturns(p) => CreateDoes(p)]_vars

\* A reservation has just been created and its copy is reserved.
ReservationCreated ==
    /\ ret.p # 0 /\ ret.op = "create" /\ ret.ok = "ok"
    /\ reservations[Len(reservations)].status = "active"
    /\ copies[reservations[Len(reservations)].copy] = "reserved"

AllPickupDates == (Today(now) - 2)..(Today(now) + MAX_PICKUP_AHEAD + 2)

DatesCall(p) ==
    \E b \in Branches, d \in AllPickupDates : CallCreate(p, "api", RaceReader, 1, b, d)

NextDates ==
    \/ Tick
    \/ DatesCall(1)
    \/ SweepSelect(1)
    \/ SweepUpdate(1)
    \/ CreateTx(1)

SpecDates == Init /\ [][NextDates]_vars

\* C18: create_reservation goes on to its sweep and its transaction exactly
\* for the pickup dates from today to today + 3 days; for any other date it
\* returns a failure at once and no copy, loan or reservation has changed.
PickupDateChecked ==
    [][\A p \in Procs :
          /\ (pc[p] = "idle" /\ loc'[p].op = "create") =>
                /\ loc'[p].pickup >= Today(now)
                /\ loc'[p].pickup <= Today(now) + 3
          /\ (pc[p] = "idle" /\ ret'.p = p /\ ret'.op = "create") =>
                /\ ret'.pickup < Today(now) \/ ret'.pickup > Today(now) + 3
                /\ ret'.ok = "fail" /\ ret'.msg = "bad_date"
                /\ pc'[p] = "idle"
                /\ UNCHANGED <<copies, loans, reservations>>]_vars

\* A reservation for the last admissible day, today + 3, has been created.
LastDayAccepted ==
    /\ ret.p # 0 /\ ret.op = "create" /\ ret.ok = "ok"
    /\ reservations[Len(reservations)].pickup = Today(now) + 3

\* C19: a cancel_reservation call that returns success finds the reservation
\* present, the caller's own and active, sets it to cancelled and sets its
\* copy to available if the copy was reserved, leaving any other copy status
\* and every other copy as it was; a call that returns a failure was given a
\* reservation that is missing, someone else's or not active.
CancelOnlyOwnActive ==
    [][\A p \in Procs :
          (loc[p].op = "cancel" /\ pc[p] \in {"cancel_read", "cancel_write"}
                                /\ pc'[p] = "idle") =>
             LET rid == loc[p].rid IN
             IF ret'.ok = "ok"
             THEN /\ rid \in ResIds
                  /\ reservations[rid].reader = loc[p].reader
                  /\ reservations[rid].status = "active"
                  /\ reservations'[rid].status = "cancelled"
                  /\ \A c \in CopyIds :
                        copies'[c] = IF c = reservations[rid].copy /\ copies[c] = "reserved"
                                     THEN "available" ELSE copies[c]
             ELSE \/ rid \notin ResIds
                  \/ reservations[rid].reader # loc[p].reader
                  \/ reservations[rid].status # "active"]_vars

\* C20: an extend_reservation call that returns success finds the
\* reservation present, the caller's own, active and not yet extended, and
\* moves its pickup date one day on, its expiry to the end of that day and
\* sets its extended flag; a call that returns a failure was given a
\* reservation that is missing, someone else's, not active or already
\* extended; and no step of the call, its sweep included, changes the status
\* of a copy.
ExtendOnlyOwnActiveOnce ==
    [][\A p \in Procs :
          LET rid == loc[p].rid IN
          /\ (loc[p].op = "extend" /\ pc[p] \in {"extend_read", "extend_write"}
                                   /\ pc'[p] = "idle" /\ ret'.ok = "ok") =>
                /\ rid \in ResIds
                /\ reservations[rid].reader = loc[p].reader
                /\ reservations[rid].status = "active"
                /\ ~reservations[rid].extended
                /\ reservations'[rid].pickup = reservations[rid].pickup + 1
                /\ reservations'[rid].expires = 2 * reservations'[rid].pickup
                /\ reservations'[rid].extended
          /\ (loc[p].op = "extend" /\ pc[p] \in {"extend_read", "extend_write"}
                                   /\ pc'[p] = "idle" /\ ret'.ok = "fail") =>
                \/ rid \notin ResIds
                \/ reservations[rid].reader # loc[p].reader
                \/ reservations[rid].status # "active"
                \/ reservations[rid].extended
          /\ (loc[p].op = "extend" /\ pc'[p] # pc[p]) => copies' = copies]_vars

\* C21: fulfill_reservation, finding the reservation active, its copy
\* reserved and no open or overdue loan on the copy, appends one open loan
\* for the reservation's reader on the reservation's copy with start = today
\* and due = today + loan_days, sets the reservation to fulfilled and the copy
\* to loaned; return_loan, finding a loan open or overdue, sets it to
\* returned with return date today and its copy to available.
FulfillThenReturn ==
    [][\A p \in Procs :
          /\ (/\ pc[p] = "fulfill_tx" /\ pc'[p] = "idle"
              /\ loc[p].rid \in ResIds
              /\ reservations[loc[p].rid].status = "active"
              /\ copies[reservations[loc[p].rid].copy] = "reserved"
              /\ \A l \in LoanIds : loans[l].copy = reservations[loc[p].rid].copy
                                       => loans[l].status \notin {"open", "overdue"}) =>
                LET res == reservations[loc[p].rid] IN
                /\ ret'.ok = "ok"
                /\ loans' = Append(loans, [status |-> "open", copy |-> res.copy,
                                           reader |-> res.reader, start |-> Today(now),
                                           due |-> Today(now) + loc[p].days,
                                           returned |-> -1])
                /\ loc[p].days = 14
                /\ reservations' = [reservations EXCEPT ![loc[p].rid].status = "fulfilled"]
                /\ copies' = [copies EXCEPT ![res.copy] = "loaned"]
          /\ (/\ pc[p] = "return_tx" /\ pc'[p] = "idle"
              /\ loans[loc[p].lid].status \in {"open", "overdue"}) =>
                LET lid == loc[p].lid IN
                /\ ret'.ok = "ok"
                /\ loans' = [loans EXCEPT ![lid].status = "returned",
                                          ![lid].returned = Today(now)]
                /\ copies' = [copies EXCEPT ![loans[lid].copy] = "available"]]_vars

\* The loan a fulfilled reservation produced has just been returned.
FulfilledLoanReturned ==
    /\ ret.p # 0 /\ ret.op = "return" /\ ret.ok = "ok"
    /\ \E l \in LoanIds, r \in ResIds :
          /\ loans[l].status = "returned" /\ loans[l].returned = Today(now)
          /\ reservations[r].status = "fulfilled"
          /\ reservations[r].copy = loans[l].copy
          /\ reservations[r].reader = loans[l].reader
          /\ copies[loans[l].copy] = "available"

\* ------------------------------------------------- catalog copy editing
\* copy.status = status; copy.save()
UpdateCopyRow(c, status) == [copies EXCEPT ![c] = status]

\* update_copy: the copy is read by id and saved with the status the dialog
\* handed over; no loan and no reservation is looked at.  The inventory code
\* and the location are handed over as they were.
UpdateCopy(p, copy_id, status) ==
    /\ pc[p] = "idle"
    /\ IF copy_id \notin CopyIds
       THEN /\ UNCHANGED copies
            /\ ret' = [NoRet EXCEPT !.p = p, !.op = "update_copy", !.via = "api",
                                     !.ok = "fail", !.msg = "copy_not_found"]
       ELSE IF status \notin _ALLOWED_COPY_STATUSES
       THEN /\ UNCHANGED copies
            /\ ret' = [NoRet EXCEPT !.p = p, !.op = "update_copy", !.via = "api",
                                     !.ok = "fail", !.msg = "bad_status"]
       ELSE /\ copies' = UpdateCopyRow(copy_id, status)
            /\ ret' = [NoRet EXCEPT !.p = p, !.op = "update_copy", !.via = "api",
                                     !.ok = "ok", !.msg = "updated"]
    /\ UNCHANGED <<now, loans, reservations, users, session, pc, loc, calls>>

\* The engine operations that lend and reserve, called one after another,
\* with copies edited in the catalog in between.
NextCatalog ==
    \/ Tick
    \/ \E c \in CopyIds \cup {NumCopies + 1},
          st \in _ALLOWED_COPY_STATUSES \cup {"archived"} : UpdateCopy(1, c, st)
    \/ \E b \in Branches, d \in PickupDates : CallCreate(1, "api", RaceReader, 1, b, d)
    \/ \E r \in 1..MaxRes : CallFulfill(1, "api", r, DEFAULT_LOAN_DAYS)
    \/ \E code \in Codes : CallIssue(1, "api", code, RaceReader)
    \/ SweepSelect(1)
    \/ SweepUpdate(1)
    \/ CreateTx(1)
    \/ FulfillTx(1)
    \/ IssueTx(1)

SpecCatalog == Init /\ [][NextCatalog]_vars

\* What fulfill_reservation requires of the rows it has locked.
FulfillMayProceed(rid) ==
    /\ rid \in ResIds
    /\ reservations[rid].status = "active"
    /\ copies[reservations[rid].copy] = "reserved"
    /\ \A l \in LoanIds : loans[l].copy = reservations[rid].copy
                             => loans[l].status \notin {"open", "overdue"}

FulfillReturns(p) == pc[p] = "fulfill_tx" /\ pc'[p] = "idle"

\* C22 as stated: fulfill_reservation succeeds only on a reservation that
\* exists, is active, has its copy reserved and no open or overdue loan on
\* the copy; a call that fails has created no loan and has changed neither
\* the reservation nor its copy.
FulfillFailsOrChangesNothing ==
    [][\A p \in Procs :
          FulfillReturns(p) =>
             /\ ret'.ok = "ok" <=> FulfillMayProceed(loc[p].rid)
             /\ ret'.ok # "ok" => /\ UNCHANGED <<copies, loans, reservations>>
                                  /\ ~ret'.own]_vars

\* C22: fulfill_reservation succeeds only on a reservation that exists, is
\* active, has its copy reserved and no open or overdue loan on the copy;
\* the transaction of a call that fails creates no loan and changes no
\* reservation and no copy.
FulfillRefuses ==
    [][\A p \in Procs :
          FulfillReturns(p) =>
             /\ ret'.ok = "ok" <=> FulfillMayProceed(loc[p].rid)
             /\ ret'.ok # "ok" => UNCHANGED <<copies, loans, reservations>>]_vars

\* fulfill_reservation has refused a reservation that its own sweep had
\* just expired.
FulfillRefusedOwnExpired ==
    ret.p # 0 /\ ret.op = "fulfill" /\ ret.ok = "fail" /\ ret.msg = "not_active" /\ ret.own

\* C23: issue_loan goes past its first checks only with a known copy code,
\* a known reader login and a copy that is available; its transaction,
\* finding the copy available, succeeds, appends one open loan with start =
\* today and due = start + 14 days and sets the copy to loaned; finding the
\* copy not available, as it is while a loan issued before is not returned,
\* it fails as not available and changes nothing.
IssueLendsAvailableCopy ==
    [][\A p \in Procs :
          /\ (pc[p] = "idle" /\ loc'[p].op = "issue") =>
                /\ loc'[p].cid \in CopyIds
                /\ loc'[p].reader \in Users
                /\ loc'[p].today = Today(now)
                /\ copies[loc'[p].cid] = "available"
          /\ (pc[p] = "issue_tx" /\ pc'[p] = "idle") =>
                LET c == loc[p].cid IN
                IF copies[c] = "available"
                THEN /\ ret'.ok = "ok"
                     /\ loans' = Append(loans, [status |-> "open", copy |-> c,
                                                reader |-> loc[p].reader,
                                                start |-> loc[p].today,
                                                due |-> loc[p].today + 14,
                                                returned |-> -1])
                     /\ copies' = [copies EXCEPT ![c] = "loaned"]
                ELSE /\ ret'.ok = "fail" /\ ret'.msg = "taken"
                     /\ UNCHANGED <<copies, loans, reservations>>]_vars

\* ----------------------------------------------- two concurrent returns
\* Loan 1 on copy 1 was issued today or fifteen days ago; it is open, or
\* overdue if its due date has passed, or already returned.  Both processes
\* call return_loan(1) before either of them runs its transaction.
InitReturnRace ==
    /\ now \in 0..MaxNow
    /\ \E start \in {Today(now), Today(now) - DEFAULT_LOAN_DAYS - 1},
          status \in {"open", "overdue", "returned"} :
          /\ status = "overdue" => start + DEFAULT_LOAN_DAYS < Today(now)
          /\ loans = <<[NewLoan(1, RaceReader, start, start + DEFAULT_LOAN_DAYS)
                          EXCEPT !.status = status,
                                 !.returned = IF status = "returned" THEN Today(now) ELSE -1]>>
          /\ copies \in {f \in [CopyIds -> SeedStatuses \cup {"loaned"}] :
                           /\ f[1] = IF status = "returned" THEN "available" ELSE "loaned"
                           /\ \A c \in CopyIds \ {1} : f[c] # "loaned"}
    /\ reservations = <<>>
    /\ users = SeedUsers
    /\ session = [p \in Procs |-> NoSession]
    /\ AllIdle

ReturnRaceCall(p) == calls = p - 1 /\ CallReturn(p, "api", 1)

NextReturnRace ==
    \/ Tick
    \/ \E p \in RaceProcs : ReturnRaceCall(p)
    \/ \E p \in RaceProcs : BothIn /\ ReturnTx(p)

SpecReturnRace == InitReturnRace /\ [][NextReturnRace]_vars

\* C24: return_loan goes past its first check, and succeeds, only on a loan
\* that is open or overdue; of two concurrent return_loan calls on one loan
\* the first to lock the row succeeds, sets the loan to returned and its copy
\* to available, and the second fails and leaves every loan and copy as it
\* was.
ReturnRaceExactlyOne ==
    [][\A p \in RaceProcs :
          /\ (pc[p] = "idle" /\ loc'[p].op = "return") =>
                loans[loc'[p].lid].status \in {"open", "overdue"}
          /\ (pc[p] = "return_tx" /\ pc'[p] = "idle") =>
                LET lid == loc[p].lid
                    first == \E q \in RaceProcs \ {p} :
                                pc[q] = "return_tx" /\ loc[q].lid = lid IN
                /\ ret'.ok = "ok" => loans[lid].status \in {"open", "overdue"}
                /\ IF first
                   THEN /\ ret'.ok = "ok"
                        /\ loans'[lid].status = "returned"
                        /\ copies'[loans[lid].copy] = "available"
                   ELSE /\ ret'.ok = "fail"
                        /\ UNCHANGED <<copies, loans, reservations>>]_vars

\* Both calls are over and the later one was refused under the lock.
SecondReturnRefused ==
    /\ CreateRaceDone
    /\ ret.p # 0 /\ ret.op = "return" /\ ret.ok = "fail" /\ ret.msg = "already_changed"
    /\ loans[1].status = "returned"

\* C25: update_overdue_statuses sets to overdue the loans that are open
\* with due date strictly before today, returns their number, and leaves
\* every other loan, every other field of the loans it marks, every copy and
\* every reservation as they were.
OverdueMarksExactly ==
    [][(ret'.p # 0 /\ ret'.op = "overdue") =>
          LET due == {l \in LoanIds : loans[l].status = "open" /\ loans[l].due < now \div 2} IN
          /\ DOMAIN loans' = DOMAIN loans
          /\ \A l \in LoanIds :
                loans'[l] = IF l \in due THEN [loans[l] EXCEPT !.status = "overdue"]
                                         ELSE loans[l]
          /\ ret'.n = Cardinality(due)
          /\ UNCHANGED <<copies, reservations>>]_vars

\* The update has marked one loan and left an open or returned one alone.
OverdueMarkedOneOfTwo ==
    /\ ret.p # 0 /\ ret.op = "overdue" /\ ret.n = 1
    /\ \E l, m \in LoanIds :
          /\ loans[l].status = "overdue"
          /\ loans[m].status \in {"open", "returned"}

\* ------------------------------------- writes the unique index refuses
\* The reader holds reservation 1 on copy 1, the one copy of the book at
\* branch 1 that can be reserved; extend, cancel and create calls of the
\* reader overlap.
InitConflict ==
    /\ now \in {0, 1}
    /\ copies \in {f \in [CopyIds -> SeedStatuses] :
                     f[1] = "reserved" /\ \A c \in CopyIds \ {1} : f[c] # "available"}
    /\ reservations = <<NewReservation(RaceReader, 1, 1, Today(now))>>
    /\ loans = <<>>
    /\ users = SeedUsers
    /\ session = [p \in Procs |-> NoSession]
    /\ AllIdle

NextConflict ==
    \/ \E p \in Procs : CallExtend(p, "api", RaceReader, 1)
    \/ \E p \in Procs : CallCancel(p, "api", RaceReader, 1)
    \/ \E p \in Procs, d \in {Today(now), Today(now) + 1} :
          CallCreate(p, "api", RaceReader, 1, 1, d)
    \/ \E p \in Procs : SweepSelect(p)
    \/ \E p \in Procs : SweepUpdate(p)
    \/ \E p \in Procs : CreateTx(p)
    \/ \E p \in Procs : CancelRead(p)
    \/ \E p \in Procs : CancelWrite(p)
    \/ \E p \in Procs : ExtendRead(p)
    \/ \E p \in Procs : ExtendWrite(p)

SpecConflict == InitConflict /\ [][NextConflict]_vars

\* C26: whatever an engine operation hands back to its caller is a
\* (success flag, message) result: no exception leaves the operation.
FailureIsResult == ret.p # 0 => ret.ok \in {"ok", "fail", "denied"}

\* ------------------------------------------------------- Session.can
\* A session whose rights map holds any value, or none, for "all" and for
\* the keys of two entry points, which the window then asks for.
RightKeys == {"all", "manage_loans", "manage_reservations"}
RightsMaps == UNION {[K -> JsonValues] : K \in SUBSET RightKeys}

InitCan ==
    /\ SeedStore
    /\ users = SeedUsers
    /\ \E d \in RightsMaps :
          session = [p \in Procs |-> IF p = 1 THEN [user |-> "lib", rights |-> d]
                                              ELSE NoSession]
    /\ AllIdle

NextCan ==
    \/ UiUpdateOverdue(1)
    \/ UiFulfillReservation(1)
    \/ SweepSelect(1)
    \/ FulfillTx(1)

SpecCan == InitCan /\ [][NextCan]_vars

\* What the claim says can(key) returns for the rights map d, where it says
\* so: "yes", "no", or "open" for a value stored for key that is no boolean.
CanSays(d, key) ==
    IF "all" \in DOMAIN d /\ d["all"] = "true" THEN "yes"
    ELSE IF key \notin DOMAIN d THEN "no"
    ELSE IF d[key] = "true" THEN "yes"
    ELSE IF d[key] = "false" THEN "no"
    ELSE "open"

EntryKey(op) == IF op = "overdue" THEN "manage_loans" ELSE "manage_reservations"

\* C27: an entry point of the window goes on when can(key) is to return
\* true, with all = true or with true stored for the key, and returns at
\* once when it is to return false, with false stored for the key or with no
\* value for it.
CanIsAllOrStoredValue ==
    [][\A op \in {"overdue", "fulfill"} :
          LET says == CanSays(session[1].rights, EntryKey(op)) IN
          /\ (pc[1] = "idle" /\ ret'.p = 1 /\ ret'.op = op /\ ret'.ok = "denied")
                => says # "yes"
          /\ (pc[1] = "idle" /\ (loc'[1].op = op \/ (ret'.p = 1 /\ ret'.op = op /\ ret'.ok # "denied")))
                => says # "no"]_vars

\* can(key) has returned true for a key stored as true, in a map whose "all"
\* is false and which lacks the other key.
CanDecidedByKey ==
    /\ "all" \in DOMAIN session[1].rights /\ session[1].rights["all"] = "false"
    /\ "manage_loans" \in DOMAIN session[1].rights
    /\ session[1].rights["manage_loans"] = "true"
    /\ "manage_reservations" \notin DOMAIN session[1].rights
    /\ ret.p = 1 /\ ret.op = "overdue" /\ ret.ok = "ok"

\* ------------------------------------------------------ get_user_rights
MaxRoles == 2

EmptyRights == [k \in {} |-> "false"]

\* roles.rights as stored: a JSON object ("dict"), a string holding a JSON
\* object ("json"), or anything else ("junk": null, an empty or unparsable
\* string, a JSON value that is no object).
RoleKeys == {"all", "manage_loans"}
RoleMaps == UNION {[K -> JsonValues] : K \in SUBSET RoleKeys}
RoleRows == [kind : {"dict"}, map : RoleMaps]
               \cup [kind : {"json"}, map : {m \in RoleMaps : \A k \in DOMAIN m : IsBool(m[k])}]
               \cup [kind : {"junk"}, map : {EmptyRights}]

_normalize_rights(v) == IF v.kind \in {"dict", "json"} THEN v.map ELSE EmptyRights

\* One pass of the inner loop, lines 253-262: the keys of d other than
\* "all" merged into `merged`.
MergeRole(merged, d) ==
    [k \in DOMAIN merged \cup (DOMAIN d \ {"all"}) |->
        IF k \notin DOMAIN d \/ k = "all" THEN merged[k]
        ELSE IF IsBool(d[k])
             THEN IF d[k] = "true" THEN "true"
                  ELSE IF k \in DOMAIN merged THEN merged[k] ELSE "false"
             ELSE d[k]]

RECURSIVE MergeFrom(_, _, _)
\* The loop over the rows of the roles query q from row i on.
MergeFrom(q, i, merged) ==
    IF i > Len(q) THEN merged
    ELSE LET d == _normalize_rights(q[i]) IN
         IF "all" \in DOMAIN d /\ d["all"] = "true"
         THEN [k \in {"all"} |-> "true"]
         ELSE MergeFrom(q, i + 1, MergeRole(merged, d))

get_user_rights(q) == MergeFrom(q, 1, EmptyRights)

\* authenticate, its last lines: the session gets the rights merged from the
\* rows of the user's roles in the order the query returned them (field q).
SignIn(p) ==
    /\ pc[p] = "idle" /\ calls = 0 /\ ret = NoRet
    /\ session' = [session EXCEPT ![p].rights = get_user_rights(session[p].q)]
    /\ ret' = [NoRet EXCEPT !.p = p, !.op = "login", !.ok = "ok"]
    /\ UNCHANGED <<now, copies, loans, reservations, users, pc, loc, calls>>

\* A user with one or two roles signs in; the window then asks for
\* manage_loans.
InitRoles ==
    /\ now = 0
    /\ copies = [c \in CopyIds |-> "available"]
    /\ loans = <<>>
    /\ reservations = <<>>
    /\ users = SeedUsers
    /\ \E q \in UNION {[1..n -> RoleRows] : n \in 1..MaxRoles} :
          session = [p \in Procs |-> IF p = 1 THEN [user |-> "lib", rights |-> NoRights, q |-> q]
                                              ELSE NoSession]
    /\ AllIdle

NextRoles ==
    \/ SignIn(1)
    \/ ret.op # "none" /\ UiUpdateOverdue(1)

SpecRoles == InitRoles /\ [][NextRoles]_vars

\* Role row i of q sets key k to true.
Grants(q, k) ==
    \E i \in 1..Len(q) :
        k \in DOMAIN _normalize_rights(q[i]) /\ _normalize_rights(q[i])[k] = "true"

Reversed(q) == [i \in 1..Len(q) |-> q[Len(q) + 1 - i]]

\* C28: after sign-in the session grants every key if some role has
\* all = true; otherwise it grants manage_loans if some role sets it to true,
\* whatever the other roles hold for it, and does not grant it if every role
\* holds false or nothing for it; and the roles read in the opposite order
\* grant the same.
RightsAreUnionOfGrants ==
    (ret.p = 1 /\ ret.op = "login") =>
        LET q == session[1].q
            d == session[1].rights
            k == "manage_loans" IN
        /\ Grants(q, "all") => Can(d, k) /\ Can(d, "manage_reservations")
        /\ Grants(q, k) => Can(d, k)
        /\ (/\ ~Grants(q, "all")
            /\ \A i \in 1..Len(q) : k \in DOMAIN _normalize_rights(q[i])
                                       => _normalize_rights(q[i])[k] = "false")
              => ~Can(d, k)
        /\ Can(get_user_rights(Reversed(q)), k) = Can(d, k)

\* ------------------------------------- list_available_branches_for_book
\* The catalog of the listing: the copies of the engine scenarios, one more
\* copy of book 1 at branch 2 and one copy of book 2 at branch 2.
ListCopyIds == 1..(NumCopies + 2)
ListBooks == {1, 2}

\* Branch LEFT JOIN Location LEFT JOIN Copy: a row for each copy located in
\* the branch, one row with a NULL copy (0) for a branch without copies.
ListJoin ==
    {<<b, c>> \in Branches \X ListCopyIds : CopyBranch(c) = b}
        \cup {<<b, 0>> : b \in {x \in Branches : \A c \in ListCopyIds : CopyBranch(c) # x}}

ListWhere_AnyStatus(row, book_id) == row[2] # 0 /\ CopyBook(row[2]) = book_id

\* WHERE copy.book = book_id AND copy.status = 'available': no NULL row
\* passes.
ListWhere(row, book_id) ==
    row[2] # 0 /\ CopyBook(row[2]) = book_id /\ copies[row[2]] = "available"

\* GROUP BY branch.id with COUNT(copy.id).
list_available_branches_for_book(book_id) ==
    LET rows == {row \in ListJoin : ListWhere(row, book_id)} IN
    {[branch_id |-> b, available_count |-> Cardinality({row \in rows : row[1] = b})] :
        b \in {row[1] : row \in rows}}

ListAvailableBranches(p, book_id) ==
    /\ pc[p] = "idle"
    /\ ret' = [NoRet EXCEPT !.p = p, !.op = "list_branches", !.ok = "ok",
                             !.book = book_id,
                             !.rows = list_available_branches_for_book(book_id)]
    /\ UNCHANGED <<now, copies, loans, reservations, users, session, pc, loc, calls>>

InitBranches ==
    /\ now = 0
    /\ copies \in [ListCopyIds -> _ALLOWED_COPY_STATUSES]
    /\ loans = <<>>
    /\ reservations = <<>>
    /\ users = SeedUsers
    /\ session = [p \in Procs |-> NoSession]
    /\ AllIdle

NextBranches ==
    \/ \E book_id \in ListBooks : ListAvailableBranches(1, book_id)
    \/ \E c \in CopyIds, st \in _ALLOWED_COPY_STATUSES : UpdateCopy(1, c, st)

SpecBranches == InitBranches /\ [][NextBranches]_vars

\* The available copies of the book located in branch b.
AvailableIn(book_id, b) ==
    {c \in DOMAIN copies : CopyBook(c) = book_id /\ CopyBranch(c) = b
                              /\ copies[c] = "available"}

\* C29: the rows list_available_branches_for_book returns hold, for each
\* branch with at least one available copy of the book, exactly one entry,
\* whose available_count is the number of those copies, and no entry for any
\* other branch.
ListIsBranchesWithAvailable ==
    (ret.p # 0 /\ ret.op = "list_branches") =>
        /\ \A b \in Branches :
              LET entries == {e \in ret.rows : e.branch_id = b} IN
              IF AvailableIn(ret.book, b) = {}
              THEN entries = {}
              ELSE /\ Cardinality(entries) = 1
                   /\ \A e \in entries :
                         e.available_count = Cardinality(AvailableIn(ret.book, b))
        /\ \A e \in ret.rows : e.branch_id \in Branches

\* The listing has returned both branches, one with two available copies,
\* while the copy of the other book is available too.
ListedTwoBranches ==
    /\ ret.p # 0 /\ ret.op = "list_branches" /\ ret.book = 1
    /\ Cardinality(ret.rows) = 2
    /\ \E e \in ret.rows : e.available_count = 2
    /\ \E c \in DOMAIN copies : CopyBook(c) = 2 /\ copies[c] = "available"

\* ------------------------------------------ the reservation listings
CallListReader(p, via, reader) ==
    /\ Enter(p)
    /\ Proceed(p, [IdleLoc EXCEPT !.op = "list_reader", !.via = via, !.reader = reader],
               "sweep_sel")
    /\ UNCHANGED <<now, copies, loans, reservations, users, session>>

CallListLibrarian(p, via) ==
    /\ Enter(p)
    /\ Proceed(p, [IdleLoc EXCEPT !.op = "list_librarian", !.via = via], "sweep_sel")
    /\ UNCHANGED <<now, copies, loans, reservations, users, session>>

\* The columns of the reservation the two listings select.
ListedRow(r) ==
    [id |-> r, status |-> reservations[r].status, pickup |-> reservations[r].pickup,
     expires |-> reservations[r].expires, extended |-> reservations[r].extended]

\* The SELECT of a listing, a statement of its own after the sweep has
\* committed: the reader's reservations, or all of them.
ListRead(p) ==
    /\ pc[p] = "list_read"
    /\ pc' = [pc EXCEPT ![p] = "idle"]
    /\ loc' = [loc EXCEPT ![p] = IdleLoc]
    /\ ret' = [NoRet EXCEPT !.p = p, !.op = loc[p].op, !.via = loc[p].via, !.ok = "ok",
                             !.msg = "rows", !.dirty = loc[p].dirty,
                             !.rows = {ListedRow(r) : r \in
                                         {x \in ResIds : loc[p].op = "list_reader"
                                                           => reservations[x].reader = loc[p].reader}}]
    /\ UNCHANGED <<now, copies, loans, reservations, users, session, calls>>

\* The reader's window and the librarian's work on the reader's
\* reservations at once; the clock moves only between operations, so that
\* `now` is the time each operation in flight started at.
NextExpiry ==
    \/ (\A p \in Procs : pc[p] = "idle") /\ Tick
    \/ \E p \in Procs, b \in Branches, d \in {Today(now), Today(now) + 1} :
          CallCreate(p, "api", RaceReader, 1, b, d)
    \/ \E p \in Procs, r \in ResIds : CallCancel(p, "api", RaceReader, r)
    \/ \E p \in Procs, r \in ResIds : CallExtend(p, "api", RaceReader, r)
    \/ \E p \in Procs, r \in ResIds : CallFulfill(p, "api", r, DEFAULT_LOAN_DAYS)
    \/ \E p \in Procs : CallListReader(p, "api", RaceReader)
    \/ \E p \in Procs : CallListLibrarian(p, "api")
    \/ \E p \in Procs : SweepSelect(p)
    \/ \E p \in Procs : SweepUpdate(p)
    \/ \E p \in Procs : CreateTx(p)
    \/ \E p \in Procs : CancelRead(p)
    \/ \E p \in Procs : CancelWrite(p)
    \/ \E p \in Procs : ExtendRead(p)
    \/ \E p \in Procs : ExtendWrite(p)
    \/ \E p \in Procs : FulfillTx(p)
    \/ \E p \in Procs : ListRead(p)

SpecExpiry == Init /\ [][NextExpiry]_vars

\* C30: each listing and each of create, cancel, extend, fulfill runs the
\* sweep before anything else; no listing returns as active, and no cancel,
\* extend or fulfill succeeds on, a reservation whose expiry preceded the
\* start of the operation.
NothingExpiredIsServed ==
    [][\A p \in Procs :
          /\ (pc[p] = "idle" /\ loc'[p].op \in {"list_reader", "list_librarian", "create",
                                                "cancel", "extend", "fulfill"})
                => pc'[p] = "sweep_sel"
          /\ (pc[p] = "list_read" /\ pc'[p] = "idle") =>
                \A row \in ret'.rows : row.status = "active" => ~(row.expires < now)
          /\ (pc[p] \in {"cancel_write", "extend_write", "fulfill_tx"} /\ pc'[p] = "idle"
                                                                     /\ ret'.ok = "ok") =>
                ~(reservations[loc[p].rid].expires < now)]_vars

\* ------------------------------------------------------ reservation dates
\* The pickup date a row was created with: an extension adds one day and
\* sets the flag in the same save.
BasePickup(res) == res.pickup - (IF res.extended THEN 1 ELSE 0)

\* What holds of the dates whatever the clock does: every row's expiry is the end of its pickup
\* day, no step moves a row's pickup date except by the one day that comes
\* with the flag, and a new row is not extended.
ExtensionAtMostOnce ==
    [][\A r \in DOMAIN reservations' :
          /\ reservations'[r].expires = _end_of_day(reservations'[r].pickup)
          /\ IF r \in ResIds
             THEN BasePickup(reservations'[r]) = BasePickup(reservations[r])
             ELSE ~reservations'[r].extended]_vars

\* C31: in every state each reservation's expiry is 23:59:59 of its pickup
\* date, its pickup date is within [creation day, creation day + 3] when it
\* is not extended and one day later when it is, and the extension was
\* applied at most once; the creation day is the day of the INSERT.
PickupWithinCreationWindow ==
    [][\A r \in DOMAIN reservations' :
          /\ reservations'[r].expires = _end_of_day(reservations'[r].pickup)
          /\ IF r \in ResIds
             THEN BasePickup(reservations'[r]) = BasePickup(reservations[r])
             ELSE /\ ~reservations'[r].extended
                  /\ reservations'[r].pickup \in
                         Today(now) .. (Today(now) + MAX_PICKUP_AHEAD)]_vars

\* ------------------------------------------------ who writes copy status
\* The steps of the loan and reservation engines that write Copy.status:
\* the UPDATE of the sweep and the transactions of create, cancel, fulfill,
\* issue and return.
CopyWritingSteps ==
    {"sweep_upd", "create_tx", "cancel_write", "fulfill_tx", "issue_tx", "return_tx"}

\* C32: the status of an existing copy changes only in a step of issueLoan,
\* returnLoan, createReservation, cancelReservation, fulfillReservation or
\* expireOldReservations; no other operation, catalog copy editing
\* included, changes it.
CopyStatusChangedOnlyByEngines ==
    [][\A c \in CopyIds :
          copies'[c] # copies[c] =>
              \E p \in Procs : pc[p] \in CopyWritingSteps /\ pc'[p] # pc[p]]_vars

\* ------------------------------------------------- the store's own checks
\* C33: whatever the engines checked, the store never holds two open or
\* overdue loans on one copy nor two active reservations on one copy: the
\* write that would add the second one is refused.
StoreRefusesSecondHolder ==
    \A c \in CopyIds :
        /\ Cardinality(ActiveLoansOn(c)) <= 1
        /\ Cardinality(ActiveResOn(c)) <= 1

\* issue_loan found the copy available under the lock, and the INSERT of the
\* loan was refused because an open loan on the copy exists.
IndexRefusedLoan ==
    /\ ret.p # 0 /\ ret.op = "issue" /\ ret.msg = "db_error"
    /\ \E c \in CopyIds : copies[c] = "available" /\ ActiveLoansOn(c) # {}

\* create_reservation picked an available copy, and the INSERT was refused
\* because an active reservation on the copy exists.
IndexRefusedReservation ==
    /\ ret.p # 0 /\ ret.op = "create" /\ ret.msg = "IntegrityError"
    /\ \E c \in CopyIds : copies[c] = "available" /\ ActiveResOn(c) # {}

\* ============================================================= row locks
\* The transactions statement by statement: a statement that locks a row
\* (SELECT ... FOR UPDATE, UPDATE, save) waits while another open transaction
\* holds the row; the writes become visible, and the locks are released, at
\* the commit.  A plain SELECT locks nothing and never waits.  An INSERT or
\* UPDATE that enters a unique index waits for the open transaction that
\* has written a row it would collide with.
NoRow == <<"none", 0>>

HeldByOther(p, row) == \E q \in Procs \ {p} : row \in loc[q].held

\* The statements that lock a row by writing it: the UPDATEs of the sweep,
\* res.save() of cancel and extend, loan.save() right after the locking
\* SELECT of return.  A row that is only locked FOR UPDATE is still seen
\* unchanged by the unique index.
WritingSteps == {"sweep_upd", "cancel_write", "extend_write", "return_tx"}

\* The rows of `rows` an open transaction other than p's has written.
WrittenByOther(p, kind, rows) ==
    {x \in rows : \E q \in Procs \ {p} : <<kind, x>> \in loc[q].held
                                          /\ pc[q] \in WritingSteps}

\* The rows of `rows` the transaction of p has not locked yet, lowest first.
FirstUnheld(p, kind, rows) ==
    LET todo == {x \in rows : <<kind, x>> \notin loc[p].held} IN
    IF todo = {} THEN NoRow ELSE <<kind, Min(todo)>>

\* expire_old_reservations: UPDATE reservations ... WHERE id IN ids, then
\* UPDATE copies ... WHERE id IN copy_ids AND status = 'reserved'.
SweepNextLock(p) ==
    LET ids == loc[p].ids
        cs == {c \in {reservations[r].copy : r \in ids} : copies[c] = "reserved"} IN
    IF FirstUnheld(p, "res", ids) # NoRow THEN FirstUnheld(p, "res", ids)
    ELSE FirstUnheld(p, "copy", cs)

\* The copy create_reservation works on: the one its SELECT has locked, else
\* the first candidate.
CreateCopy(p) ==
    IF loc[p].cid # 0 THEN loc[p].cid
    ELSE LET cands == CreateCandidates(loc[p].book, loc[p].branch) IN
         IF cands = {} THEN 0 ELSE CreatePick(cands)

\* create_reservation: SELECT copies JOIN locations ... FOR UPDATE locks the
\* copy row and its location row; the INSERT enters uq_reservation_active_copy.
CreateNextLock(p) ==
    LET c == CreateCopy(p) IN
    IF c = 0 THEN NoRow
    ELSE IF <<"copy", c>> \notin loc[p].held THEN <<"copy", c>>
    ELSE IF <<"location", CopyBranch(c)>> \notin loc[p].held
    THEN <<"location", CopyBranch(c)>>
    ELSE FirstUnheld(p, "res", WrittenByOther(p, "res", ActiveResOn(c)))

CancelNextLock_CopyFirst(p) ==
    LET c == loc[p].res.copy IN
    IF copies[c] = "reserved" /\ <<"copy", c>> \notin loc[p].held THEN <<"copy", c>>
    ELSE FirstUnheld(p, "res", {loc[p].rid})

\* cancel_reservation: res.save(), then UPDATE copies ... WHERE id = copy_id
\* AND status = 'reserved'.
CancelNextLock(p) ==
    LET c == loc[p].res.copy IN
    IF FirstUnheld(p, "res", {loc[p].rid}) # NoRow THEN FirstUnheld(p, "res", {loc[p].rid})
    ELSE IF copies[c] = "reserved" THEN FirstUnheld(p, "copy", {c})
    ELSE NoRow

\* extend_reservation: res.save() writes the row and enters the unique index
\* when it makes the row active.
ExtendNextLock(p) ==
    IF FirstUnheld(p, "res", {loc[p].rid}) # NoRow THEN FirstUnheld(p, "res", {loc[p].rid})
    ELSE FirstUnheld(p, "res", WrittenByOther(p, "res",
                                ActiveResOn(loc[p].res.copy) \ {loc[p].rid}))

\* fulfill_reservation: SELECT reservations JOIN copies ... FOR UPDATE locks
\* the reservation row, then its copy row; the loan is inserted only when no
\* open loan on the copy was found.
FulfillNextLock(p) ==
    LET rid == loc[p].rid IN
    IF rid \notin ResIds THEN NoRow
    ELSE IF FirstUnheld(p, "res", {rid}) # NoRow THEN FirstUnheld(p, "res", {rid})
    ELSE FirstUnheld(p, "copy", {reservations[rid].copy})

\* issue_loan: SELECT copies ... FOR UPDATE; the INSERT enters
\* uq_one_open_loan_per_copy.
IssueNextLock(p) ==
    LET c == loc[p].cid IN
    IF FirstUnheld(p, "copy", {c}) # NoRow THEN FirstUnheld(p, "copy", {c})
    ELSE IF IssueRecheck(c)
    THEN FirstUnheld(p, "loan", WrittenByOther(p, "loan", ActiveLoansOn(c)))
    ELSE NoRow

\* return_loan: SELECT loans ... FOR UPDATE, loan.save(), copy.save().
ReturnNextLock(p) ==
    LET lid == loc[p].lid IN
    IF FirstUnheld(p, "loan", {lid}) # NoRow THEN FirstUnheld(p, "loan", {lid})
    ELSE IF Returnable(loans[lid].status) THEN FirstUnheld(p, "copy", {loans[lid].copy})
    ELSE NoRow

\* The row the next locking statement of p's transaction needs, NoRow when
\* only the commit (or the return that rolls back) is left.
NextLock(p) ==
    CASE pc[p] = "sweep_upd" -> SweepNextLock(p)
      [] pc[p] = "create_tx" -> CreateNextLock(p)
      [] pc[p] = "cancel_write" -> CancelNextLock(p)
      [] pc[p] = "extend_write" -> ExtendNextLock(p)
      [] pc[p] = "fulfill_tx" -> FulfillNextLock(p)
      [] pc[p] = "issue_tx" -> IssueNextLock(p)
      [] pc[p] = "return_tx" -> ReturnNextLock(p)
      [] OTHER -> NoRow

Waiting(p) == NextLock(p) # NoRow /\ HeldByOther(p, NextLock(p))

\* The statement gets the row lock it was waiting for.
LockRow(p) ==
    /\ NextLock(p) # NoRow
    /\ ~HeldByOther(p, NextLock(p))
    /\ loc' = [loc EXCEPT ![p].held = @ \cup {NextLock(p)},
                          ![p].cid = IF pc[p] = "create_tx" THEN CreateCopy(p) ELSE @]
    /\ ret' = NoRet
    /\ UNCHANGED <<now, copies, loans, reservations, users, session, pc, calls>>

\* The rest of create_reservation's transaction on the copy it has locked.
CreateCommit(p) ==
    /\ pc[p] = "create_tx"
    /\ IF loc[p].cid = 0
       THEN /\ UNCHANGED <<copies, reservations>>
            /\ Finish(p, "fail", "no_copies")
       ELSE CreateInsert(p, loc[p].cid)
    /\ UNCHANGED <<now, loans, users, session, calls>>

\* The transaction of p has every lock its statements need.
AllLocked(p) == NextLock(p) = NoRow

\* The writes and the commit of the transaction that has all its locks.
Commit(p) ==
    \/ AllLocked(p) /\ SweepUpdate(p)
    \/ AllLocked(p) /\ CreateCommit(p)
    \/ AllLocked(p) /\ CancelWrite(p)
    \/ AllLocked(p) /\ ExtendWrite(p)
    \/ AllLocked(p) /\ FulfillTx(p)
    \/ AllLocked(p) /\ IssueTx(p)
    \/ AllLocked(p) /\ ReturnTx(p)

\* What a started call does next.
LockStep(p) ==
    \/ SweepSelect(p)
    \/ CancelRead(p)
    \/ ExtendRead(p)
    \/ LockRow(p)
    \/ Commit(p)

\* Reservation 1 of the reader on copy 1, due today; copy 2 on loan or free.
InitLocks ==
    /\ now = 0
    /\ reservations = <<NewReservation(RaceReader, 1, 1, 0)>>
    /\ \/ /\ copies = [c \in CopyIds |-> IF c = 1 THEN "reserved" ELSE "loaned"]
          /\ loans = <<NewLoan(2, RaceReader, 0, DEFAULT_LOAN_DAYS)>>
       \/ /\ copies = [c \in CopyIds |-> IF c = 1 THEN "reserved" ELSE "available"]
          /\ loans = <<>>
    /\ users = SeedUsers
    /\ session = [p \in Procs |-> NoSession]
    /\ AllIdle

LockCall(p) ==
    \/ CallExpire(p, "api")
    \/ \E d \in {Today(now)} : CallCreate(p, "api", RaceReader, 1, 1, d)
    \/ CallCancel(p, "api", RaceReader, 1)
    \/ CallExtend(p, "api", RaceReader, 1)
    \/ CallFulfill(p, "api", 1, DEFAULT_LOAN_DAYS)
    \/ \E code \in Codes : CallIssue(p, "api", code, RaceReader)
    \/ CallReturn(p, "api", 1)

NextLocks ==
    \/ Tick
    \/ \E p \in Procs : LockCall(p)
    \/ \E p \in Procs : SweepSelect(p)
    \/ \E p \in Procs : CancelRead(p)
    \/ \E p \in Procs : ExtendRead(p)
    \/ \E p \in Procs : LockRow(p)
    \/ \E p \in Procs : AllLocked(p) /\ SweepUpdate(p)
    \/ \E p \in Procs : AllLocked(p) /\ CreateCommit(p)
    \/ \E p \in Procs : AllLocked(p) /\ CancelWrite(p)
    \/ \E p \in Procs : AllLocked(p) /\ ExtendWrite(p)
    \/ \E p \in Procs : AllLocked(p) /\ FulfillTx(p)
    \/ \E p \in Procs : AllLocked(p) /\ IssueTx(p)
    \/ \E p \in Procs : AllLocked(p) /\ ReturnTx(p)

\* A thread whose next statement does not have to wait executes it.
SpecLocks == InitLocks /\ [][NextLocks]_vars /\ \A p \in Procs : WF_vars(LockStep(p))

AuthLogins == {"", " ", "kap213", " kap213 ", "lib", "admin", "ghost"}

\* (login or "").strip()
Strip(login) ==
    CASE login = " " -> ""
      [] login = " kap213 " -> "kap213"
      [] OTHER -> login

\* The role rows of a user as get_user_rights reads them.
RoleRowsOf(u) == <<[kind |-> "dict", map |-> users[u].rights]>>

\* Lines 292-315.  The Session is handed to the window of p.
authenticate(p, login, password) ==
    /\ pc[p] = "idle"
    /\ LET l == Strip(login)
           back == [NoRet EXCEPT !.p = p, !.op = "authenticate", !.via = "ui",
                                 !.login = login, !.password = password] IN
       IF l = "" \/ password = ""
       THEN /\ ret' = [back EXCEPT !.ok = "fail", !.msg = "empty"]
            /\ UNCHANGED session
       ELSE IF l \notin DOMAIN users
       THEN /\ ret' = [back EXCEPT !.ok = "fail", !.msg = "invalid"]
            /\ UNCHANGED session
       ELSE IF ~users[l].is_active
       THEN /\ ret' = [back EXCEPT !.ok = "fail", !.msg = "disabled"]
            /\ UNCHANGED session
       ELSE IF ~verify_password(password, users[l].password_hash)
       THEN /\ ret' = [back EXCEPT !.ok = "fail", !.msg = "invalid"]
            /\ UNCHANGED session
       ELSE /\ ret' = [back EXCEPT !.ok = "ok", !.msg = "OK"]
            /\ session' = [session EXCEPT ![p] = [user |-> l,
                                                  rights |-> get_user_rights(RoleRowsOf(l))]]
    /\ UNCHANGED <<now, copies, loans, reservations, users, pc, loc, calls>>

\* --------------------------------------------------------- user management
IsAdmin_Never(u) == FALSE

\* UserRole rows of the user with the role named "Admin".
IsAdmin(u) == "Admin" \in users[u].roles

\* Lines 438-461.
set_user_active(p, user_id, is_active) ==
    /\ pc[p] = "idle"
    /\ LET back == [NoRet EXCEPT !.p = p, !.op = "set_user_active", !.via = "api",
                                 !.target = user_id] IN
       IF ~Can(session[p].rights, "manage_users")
       THEN ret' = [back EXCEPT !.ok = "fail", !.msg = "no_rights"] /\ UNCHANGED users
       ELSE IF user_id \notin DOMAIN users
       THEN ret' = [back EXCEPT !.ok = "fail", !.msg = "not_found"] /\ UNCHANGED users
       ELSE IF user_id = session[p].user /\ ~is_active
       THEN ret' = [back EXCEPT !.ok = "fail", !.msg = "self"] /\ UNCHANGED users
       ELSE IF ~is_active /\ IsAdmin(user_id)
       THEN ret' = [back EXCEPT !.ok = "fail", !.msg = "admin"] /\ UNCHANGED users
       ELSE /\ ret' = [back EXCEPT !.ok = "ok", !.msg = "updated"]
            /\ users' = [users EXCEPT ![user_id].is_active = is_active]
    /\ UNCHANGED <<now, copies, loans, reservations, session, pc, loc, calls>>

\* The librarian column of the loans: in this model every loan was issued
\* by the seeded librarian.
LoanLibrarian(l) == "lib"

\* Lines 499-505: a loan with the user as reader or as librarian.
HasLoans(u) == \E l \in LoanIds : loans[l].reader = u \/ LoanLibrarian(l) = u

\* reservations.reader_id REFERENCES users(id) ON DELETE CASCADE: the rows
\* of the deleted user go with it; a deleted row is NoRes.
CascadeReservations(u) ==
    [r \in ResIds |-> IF reservations[r].reader = u THEN NoRes ELSE reservations[r]]

\* Lines 482-514.
delete_user(p, user_id) ==
    /\ pc[p] = "idle"
    /\ LET back == [NoRet EXCEPT !.p = p, !.op = "delete_user", !.via = "api",
                                 !.target = user_id] IN
       IF ~Can(session[p].rights, "manage_users")
       THEN ret' = [back EXCEPT !.ok = "fail", !.msg = "no_rights"]
            /\ UNCHANGED <<users, reservations>>
       ELSE IF user_id \notin DOMAIN users
       THEN ret' = [back EXCEPT !.ok = "fail", !.msg = "not_found"]
            /\ UNCHANGED <<users, reservations>>
       ELSE IF user_id = session[p].user
       THEN ret' = [back EXCEPT !.ok = "fail", !.msg = "self"]
            /\ UNCHANGED <<users, reservations>>
       ELSE IF IsAdmin(user_id)
       THEN ret' = [back EXCEPT !.ok = "fail", !.msg = "admin"]
            /\ UNCHANGED <<users, reservations>>
       ELSE IF HasLoans(user_id)
       THEN ret' = [back EXCEPT !.ok = "fail", !.msg = "has_loans"]
            /\ UNCHANGED <<users, reservations>>
       ELSE /\ ret' = [back EXCEPT !.ok = "ok", !.msg = "deleted"]
            /\ users' = [u \in DOMAIN users \ {user_id} |-> users[u]]
            /\ reservations' = CascadeReservations(user_id)
    /\ UNCHANGED <<now, copies, loans, session, pc, loc, calls>>

\* The users table of the seed; the librarian's role may carry
\* manage_users, the librarian may hold the Admin role as well.  The reader
\* may hold a reservation or a loan.
InitUsers ==
    /\ now = 0
    /\ \E mu \in {"true", "false"}, extra \in {{}, {"Admin"}} :
          users = [SeedUsers EXCEPT
                      !["lib"].rights = [@ EXCEPT !["manage_users"] = mu],
                      !["lib"].roles = @ \cup extra]
    /\ \/ /\ copies = [c \in CopyIds |-> "available"]
          /\ reservations = <<>> /\ loans = <<>>
       \/ /\ copies = [c \in CopyIds |-> IF c = 1 THEN "reserved" ELSE "available"]
          /\ reservations = <<NewReservation("kap213", 1, 1, 0)>> /\ loans = <<>>
       \/ /\ copies = [c \in CopyIds |-> IF c = 1 THEN "loaned" ELSE "available"]
          /\ reservations = <<>>
          /\ loans = <<NewLoan(1, "kap213", 0, DEFAULT_LOAN_DAYS)>>
    /\ session = [p \in Procs |-> NoSession]
    /\ AllIdle

\* The users sign in with their passwords and manage one another.
NextUsers ==
    \/ \E p \in Procs, u \in Users : authenticate(p, u, SeedPassword(u))
    \/ \E p \in Procs, u \in Users \cup {"ghost"}, a \in BOOLEAN : set_user_active(p, u, a)
    \/ \E p \in Procs, u \in Users \cup {"ghost"} : delete_user(p, u)

SpecUsers == InitUsers /\ [][NextUsers]_vars

\* The users table of the seed; the reader's password may be a long one.
InitAuth ==
    /\ SeedStore
    /\ \E pw \in {"1234", "long72A"} :
          users = [SeedUsers EXCEPT !["kap213"].password_hash = hash_password(pw)]
    /\ session = [p \in Procs |-> NoSession]
    /\ AllIdle

\* Sign-in attempts of every kind at window 1 while the administrator, at
\* window 2, disables, enables and deletes accounts.
NextAuth ==
    \/ \E l \in AuthLogins, pw \in Passwords : authenticate(1, l, pw)
    \/ authenticate(2, "admin", SeedPassword("admin"))
    \/ \E u \in Users, a \in BOOLEAN : set_user_active(2, u, a)
    \/ \E u \in Users : delete_user(2, u)

SpecAuth == InitAuth /\ [][NextAuth]_vars

\* C35: authenticate hands back a Session only when the login exists, the
\* account is active and the password verifies against the stored hash; in
\* every other case it returns a failure (disabled for an existing inactive
\* account, invalid or empty credentials otherwise) and no Session.
SessionOnlyForValidLogin ==
    [][ret'.op = "authenticate" =>
          LET l == Strip(ret'.login)
              good == /\ l \in DOMAIN users
                      /\ users[l].is_active
                      /\ hash_password(ret'.password) = users[l].password_hash IN
          /\ ret'.ok = "ok" <=> good
          /\ good => session'[ret'.p].user = l
          /\ ~good => /\ ret'.ok = "fail" /\ session' = session
                      /\ ret'.msg \in {"empty", "invalid", "disabled"}
                      /\ ret'.msg = "disabled" =>
                            l \in DOMAIN users /\ ~users[l].is_active]_vars

\* A disabled account was refused although the password was the right one.
DisabledRefused ==
    /\ ret.op = "authenticate" /\ ret.msg = "disabled"
    /\ Strip(ret.login) \in DOMAIN users
    /\ hash_password(ret.password) = users[Strip(ret.login)].password_hash
    /\ session[ret.p].user # Strip(ret.login)

\* ------------------------------------------------ what extend may write
\* C36: the write of extendReservation changes the pickup date, the expiry
\* and the extended-once flag of its reservation and nothing else: whatever
\* ran between its read and its write, the status of the reservation is
\* after the write what it was before it.
ExtendKeepsStatus ==
    [][\A p \in Procs :
          (pc[p] = "extend_write" /\ pc'[p] = "idle") =>
              \A r \in ResIds :
                  /\ reservations'[r].status = reservations[r].status
                  /\ reservations'[r].copy = reservations[r].copy
                  /\ reservations'[r].reader = reservations[r].reader
                  /\ reservations'[r].branch = reservations[r].branch]_vars

\* ------------------------------------------- returns and catalog edits
\* Loans, reservations and returns called one after another, with copies
\* edited in the catalog in between.
NextShelf ==
    \/ \E c \in CopyIds, st \in _ALLOWED_COPY_STATUSES : UpdateCopy(1, c, st)
    \/ \E b \in Branches : CallCreate(1, "api", RaceReader, 1, b, Today(now))
    \/ \E code \in Codes : CallIssue(1, "api", code, RaceReader)
    \/ \E l \in 1..MaxLoans : CallReturn(1, "api", l)
    \/ SweepSelect(1)
    \/ CreateTx(1)
    \/ IssueTx(1)
    \/ ReturnTx(1)

SpecShelf == Init /\ [][NextShelf]_vars

\* C37: when returnLoan sets a copy to available, no active reservation and
\* no other open or overdue loan references that copy.
ReturnFreesOnlyUnheldCopy ==
    [][\A p \in Procs :
          (pc[p] = "return_tx" /\ pc'[p] = "idle" /\ ret'.ok = "ok") =>
              LET c == loans[loc[p].lid].copy IN
              copies'[c] = "available" =>
                  /\ ActiveResOn(c) = {}
                  /\ ActiveLoansOn(c) \ {loc[p].lid} = {}]_vars

\* ------------------------------------------------- deleting a reader
\* C38: a user that delete_user removes has no active reservation, and after
\* the deletion every reserved copy is still referenced by an active
\* reservation.
DeleteUserKeepsReservers ==
    [][(ret'.op = "delete_user" /\ ret'.ok = "ok") =>
          /\ \A r \in ResIds : reservations[r].reader = ret'.target
                                  => reservations[r].status # "active"
          /\ \A c \in CopyIds : copies'[c] = "reserved" =>
                \E r \in DOMAIN reservations' :
                    /\ reservations'[r].copy = c
                    /\ reservations'[r].status = "active"]_vars

\* ------------------------------------------------------------ delete_copy
\* A deleted copy row: no operation finds it.
IsCopy(c) == c \in CopyIds /\ copies[c] # "deleted"

\* Loan.select(COUNT(Loan.id)).where(Loan.copy == copy)
LoansOf(c) == {l \in LoanIds : loans[l].copy = c}

FkReservationCopy_Off(c) == FALSE

\* reservations.copy_id REFERENCES copies(id) ON DELETE RESTRICT: the DELETE
\* is refused while a reservation row, of any status, references the copy.
FkReservationCopy(c) == \E r \in ResIds : reservations[r].copy = c

\* delete_copy: nothing catches the IntegrityError of the DELETE.
delete_copy(p, copy_id) ==
    /\ pc[p] = "idle"
    /\ LET back == [NoRet EXCEPT !.p = p, !.op = "delete_copy", !.via = "api",
                                 !.target = copy_id] IN
       IF ~IsCopy(copy_id)
       THEN ret' = [back EXCEPT !.ok = "fail", !.msg = "copy_not_found"] /\ UNCHANGED copies
       ELSE IF LoansOf(copy_id) # {}
       THEN ret' = [back EXCEPT !.ok = "fail", !.msg = "has_loans"] /\ UNCHANGED copies
       ELSE IF FkReservationCopy(copy_id)
       THEN ret' = [back EXCEPT !.ok = "raise", !.msg = "IntegrityError"] /\ UNCHANGED copies
       ELSE /\ ret' = [back EXCEPT !.ok = "ok", !.msg = "deleted"]
            /\ copies' = [copies EXCEPT ![copy_id] = "deleted"]
    /\ UNCHANGED <<now, loans, reservations, users, session, pc, loc, calls>>

\* Copies are reserved, lent, given back and deleted from the catalog, one
\* call after another.
NextWeeding ==
    \/ \E c \in CopyIds \cup {NumCopies + 1} : delete_copy(1, c)
    \/ \E b \in Branches : CallCreate(1, "api", RaceReader, 1, b, Today(now))
    \/ \E r \in 1..MaxRes : CallCancel(1, "api", RaceReader, r)
    \/ \E code \in Codes : CallIssue(1, "api", code, RaceReader)
    \/ \E l \in 1..MaxLoans : CallReturn(1, "api", l)
    \/ SweepSelect(1)
    \/ CreateTx(1)
    \/ CancelRead(1)
    \/ CancelWrite(1)
    \/ IssueTx(1)
    \/ ReturnTx(1)

SpecWeeding == Init /\ [][NextWeeding]_vars

\* C39: delete_copy removes a copy only when no loan and no reservation
\* references it; when it refuses, the copy, the loans and the reservations
\* are what they were.
DeleteCopyOnlyUnreferenced ==
    [][ret'.op = "delete_copy" =>
          /\ ret'.ok = "ok" =>
                /\ \A l \in LoanIds : loans[l].copy # ret'.target
                /\ \A r \in ResIds : reservations[r].copy # ret'.target
          /\ ret'.ok # "ok" => UNCHANGED <<copies, loans, reservations>>
          /\ \A c \in CopyIds : c # ret'.target => copies'[c] = copies[c]]_vars

\* The deletion of an available copy was refused because of a reservation
\* that is no longer active.
DeleteRefusedForOldReservation ==
    /\ ret.op = "delete_copy" /\ ret.ok = "raise"
    /\ copies[ret.target] = "available"
    /\ \E r \in ResIds : reservations[r].copy = ret.target /\ reservations[r].status = "cancelled"

\* ------------------------------------------- administrators and oneself
\* C40: no call of set_user_active or delete_user deactivates or deletes a
\* user who holds the Admin role, none deactivates or deletes the caller's
\* own account, and a call by a session without manage_users changes no user.
AdminsAndSelfProtected ==
    [][ret'.op \in {"set_user_active", "delete_user"} =>
          LET caller == session[ret'.p].user IN
          /\ \A u \in DOMAIN users :
                ("Admin" \in users[u].roles \/ u = caller) =>
                    /\ u \in DOMAIN users'
                    /\ users[u].is_active => users'[u].is_active
          /\ ~Can(session[ret'.p].rights, "manage_users") => users' = users]_vars

\* A librarian whose role carries manage_users tried to delete the
\* administrator and was refused.
AdminDeletionRefused ==
    /\ ret.op = "delete_user" /\ ret.ok = "fail" /\ ret.msg = "admin"
    /\ ret.target = "admin" /\ session[ret.p].user = "lib"
    /\ "admin" \in DOMAIN users

====
